---- MODULE Spec2Model ----
(***************************************************************************)
(* model-t: validation of GitHub workflows.                                *)
(*                                                                         *)
(* Eight state machines share this module:                                  *)
(*   SpecReader   - FileReader (fileReader.ts), the document cache, driven *)
(*                  by concurrent accessor calls;                          *)
(*   SpecAnalyzer - GHWorkflowAnalyzer (lib/workflowAnalyzer.ts), one      *)
(*                  analyzeWorkflow run with its jobs analyzed in parallel;*)
(*   SpecCall     - the synchronous input checks of #analyzeJob applied to *)
(*                  bounded callee inputs and `with` values;               *)
(*   SpecData     - isValidInputDataType applied to bounded strings;       *)
(*   SpecRead     - readWorkflowModel (readWorkflow.ts) applied to bounded *)
(*                  parsed YAML documents;                                 *)
(*   SpecCli      - one run of the command line program (bin.ts);          *)
(*   SpecFetch    - fetchActionMetadata (repoObjectFetcher.ts) and the     *)
(*                  classification of the HTTP responses it receives;      *)
(*   SpecAction   - readActionModel (readAction.ts) applied to bounded     *)
(*                  parsed action documents, and the input check of the    *)
(*                  analyzer applied to what was read.                     *)
(***************************************************************************)
EXTENDS Integers, Sequences, FiniteSets, TLC

VARIABLES
    cache,        \* FileReader.#cache: kind -> key -> promise
    fetched,      \* calls made to the fetchers by FileReader, per <<kind, key>>
    requests,     \* accessor calls of FileReader in flight
    workflows,    \* GHWorkflowAnalyzer.#workflows: path -> promise
    fetchCount,   \* calls made to the fetchers by the analyzer, per target
    run,          \* the analyzeWorkflow call: its position, workflow and outcome
    jobs,         \* per job of the analyzed workflow: position of its task
    raised,       \* jobs in the order their tasks rejected
    reads,        \* per target of a load: how its fetch and the reading of its text ended
    call,         \* SpecCall: one workflow call check of #analyzeJob and its result
    data,         \* SpecData: one isValidInputDataType call and its result
    document,     \* SpecRead: one parsed workflow document and what reading it gave
    cli,          \* SpecCli: one run of the command line program
    metadata,     \* SpecFetch: one fetchActionMetadata call and its HTTP requests
    actionYaml    \* SpecAction: one parsed action document and what reading it gave

vars == <<cache, fetched, requests, workflows, fetchCount, run, jobs, raised, reads, call, data, document, cli, metadata, actionYaml>>

readerVars == <<cache, fetched, requests>>
analyzerVars == <<workflows, fetchCount, run, jobs, raised>>

(***************************************************************************)
(* Bounds                                                                  *)
(***************************************************************************)
MaxRequests == 2
MaxTokens == 5
MaxInputs == 2
MaxJobs == 2

(***************************************************************************)
(* Values shared by the machines                                           *)
(***************************************************************************)
Null == "null"
Undefined == "undefined"

\* the schema errors a reader returns: none, or a list of two
SomeSchemaErrors ==
    << [path |-> "jobs", message |-> "No jobs defined in jobs"],
       [path |-> "on", message |-> "Must be an array or map of workflow triggering events"] >>

SchemaErrorLists == { <<>>, SomeSchemaErrors }

NewGHWorkflowErrorMutant(code, workflow, action, message, referencedBy, schemaErrors) ==
    [ class |-> "GHWorkflowError",
      code |-> code,
      workflow |-> workflow,
      action |-> IF action = Undefined THEN Null ELSE action,
      referencedBy |-> Null,
      schemaErrors |-> schemaErrors,
      message |-> IF message = <<>> THEN <<code>> ELSE message,
      resetsWhen |-> 0 ]

\* new GHWorkflowError(code, workflow, {action, message, referencedBy, schemaErrors});
\* an absent schemaErrors (null) is the empty sequence
NewGHWorkflowError(code, workflow, action, message, referencedBy, schemaErrors) ==
    [ class |-> "GHWorkflowError",
      code |-> code,
      workflow |-> workflow,
      action |-> IF action = Undefined THEN Null ELSE action,
      referencedBy |-> IF referencedBy = Undefined THEN Null ELSE referencedBy,
      schemaErrors |-> schemaErrors,
      message |-> IF message = <<>> THEN <<code>> ELSE message,
      resetsWhen |-> 0 ]

\* an error of another class, as the fetchers and the readers throw them
OtherError(class, resetsWhen) ==
    [ class |-> class,
      code |-> Null,
      workflow |-> Null,
      action |-> Null,
      referencedBy |-> Null,
      schemaErrors |-> <<>>,
      message |-> <<class>>,
      resetsWhen |-> resetsWhen ]

NoError == OtherError("none", 0)

(***************************************************************************)
(* The model (model.ts) as far as the cache and the analyzer read it       *)
(***************************************************************************)
\* GHWorkflow: __PATH, the events of `on`, the inputs of `on.workflow_call`
\* in the order of Object.entries, and the jobs in the order of Object.keys
Workflow(events, callInputs, jobSeq) ==
    [ PATH |-> Undefined, events |-> events, callInputs |-> callInputs, jobs |-> jobSeq ]

\* GHAction: the inputs in the order of Object.entries
Action(inputs) == [ inputs |-> inputs ]

EmptyWorkflow == Workflow({}, <<>>, <<>>)
EmptyAction == Action(<<>>)

\* what readWorkflowModel / readActionModel make of a fetched text: they throw
\* (readYaml, a root that is not a map) or return a model and schema errors
ReadResult(throws, model, schemaErrors) ==
    [ throws |-> throws, model |-> model, schemaErrors |-> schemaErrors ]

\* how the fetch of a text and its reading ended: the class of the error the
\* fetcher threw, whether the text was read, and the schema errors read
NotRead == [ read |-> FALSE, thrown |-> "none", schemaErrors |-> <<>> ]
FetchOutcome(fetchError, doc) ==
    [ read |-> fetchError = NoError /\ ~doc.throws,
      thrown |-> fetchError.class,
      schemaErrors |-> IF fetchError = NoError /\ ~doc.throws THEN doc.schemaErrors ELSE <<>> ]

(***************************************************************************)
(* Promises                                                                *)
(***************************************************************************)
Absent(empty) == [ state |-> "absent", value |-> empty, error |-> NoError, referencedBy |-> Undefined ]
Pending(empty, referencedBy) ==
    [ state |-> "pending", value |-> empty, error |-> NoError, referencedBy |-> referencedBy ]
Fulfilled(value) ==
    [ state |-> "fulfilled", value |-> value, error |-> NoError, referencedBy |-> Undefined ]
Rejected(empty, error, referencedBy) ==
    [ state |-> "rejected", value |-> empty, error |-> error, referencedBy |-> referencedBy ]

Settled(promise) == promise.state \in {"fulfilled", "rejected"}

(***************************************************************************)
(* isValidInputDataType and reduceExpressionsFromString                    *)
(* (workflowAnalyzer.ts). A string is the sequence of its characters.      *)
(***************************************************************************)
\* a `with` value as js-yaml yields it: a boolean, a number or a string
Value(type, text) == [ type |-> type, text |-> text ]

typeof(v) == v.type

\* VALID_DATA_TYPES, mutated: a string input takes only strings
VALID_DATA_TYPES_StringOnly(type) ==
    CASE type = "boolean" -> {"boolean"}
      [] type = "number" -> {"number"}
      [] type = "string" -> {"string"}
      [] type = "choice" -> {"boolean", "number", "string"}
      [] type = "environment" -> {"string"}

VALID_DATA_TYPES(type) ==
    CASE type = "boolean" -> {"boolean"}
      [] type = "number" -> {"number"}
      [] type = "string" -> {"boolean", "number", "string"}
      [] type = "choice" -> {"boolean", "number", "string"}
      [] type = "environment" -> {"string"}

\* what `.` of a regular expression does not match
LineTerminators == {"\n", "\r"}
\* what String.prototype.trim removes
WhiteSpace == {" ", "\t", "\n", "\r"}

\* the positions of `}}` that /\${{.*}}/ can end at when it starts at i
ExpressionEnds(s, i) ==
    { k \in (i + 3)..(Len(s) - 1) :
        /\ s[k] = "}" /\ s[k + 1] = "}"
        /\ \A m \in (i + 3)..(k - 1) : s[m] \notin LineTerminators }

\* the positions /\${{.*}}/ matches at
ExpressionStarts(s) ==
    { i \in 1..(Len(s) - 4) :
        /\ s[i] = "$" /\ s[i + 1] = "{" /\ s[i + 2] = "{"
        /\ ExpressionEnds(s, i) # {} }

Min(S) == CHOOSE x \in S : \A y \in S : x <= y
Max(S) == CHOOSE x \in S : \A y \in S : x >= y

\* s.replace(/\${{.*}}/, ''): the leftmost match, `.*` taking all it can
ReplaceExpression(s) ==
    LET i == Min(ExpressionStarts(s))
        k == Max(ExpressionEnds(s, i))
    IN  SubSeq(s, 1, i - 1) \o SubSeq(s, k + 2, Len(s))

RECURSIVE trimStart(_)
trimStart(s) == IF s # <<>> /\ Head(s) \in WhiteSpace THEN trimStart(Tail(s)) ELSE s

RECURSIVE trimEnd(_)
trimEnd(s) ==
    IF s # <<>> /\ s[Len(s)] \in WhiteSpace THEN trimEnd(SubSeq(s, 1, Len(s) - 1)) ELSE s

trim(s) == trimEnd(trimStart(s))

RECURSIVE reduceExpressionsFromString(_)
reduceExpressionsFromString(s) ==
    IF ExpressionStarts(s) # {}
    THEN reduceExpressionsFromString(ReplaceExpression(s))
    ELSE trim(s)

isValidInputDataType(type, d) ==
    LET dataType == typeof(d)
        isValidDataType == dataType \in VALID_DATA_TYPES(type)
    IN  IF isValidDataType \/ dataType # "string"
        THEN isValidDataType
        ELSE reduceExpressionsFromString(d.text) = <<>>

\* the pieces strings are put together from
Tokens == { <<"$", "{", "{">>, <<"}", "}">>, <<"a">>, <<" ">>, <<"}">>, <<"\n">> }

RECURSIVE Flatten(_)
Flatten(ts) == IF ts = <<>> THEN <<>> ELSE Head(ts) \o Flatten(Tail(ts))

\* the strings of at most MaxTokens pieces
Strings == UNION { { Flatten(ts) : ts \in [1..n -> Tokens] } : n \in 0..MaxTokens }

\* the values isValidInputDataType is applied to
DataValues ==
    { Value("boolean", <<"t", "r", "u", "e">>), Value("number", <<"1">>) }
      \cup { Value("string", str) : str \in Strings }

InputTypes == {"boolean", "number", "string", "choice", "environment"}

InitData ==
    /\ data \in [ pc : {"called"}, type : InputTypes, d : DataValues, valid : {FALSE} ]
    /\ cache = <<>>
    /\ fetched = <<>>
    /\ requests = <<>>
    /\ workflows = <<>>
    /\ fetchCount = <<>>
    /\ run = <<>>
    /\ jobs = <<>>
    /\ raised = <<>>
    /\ reads = <<>>
    /\ call = <<>>
    /\ document = <<>> /\ cli = <<>> /\ metadata = <<>> /\ actionYaml = <<>>

isValidInputDataTypeReturns ==
    /\ data.pc = "called"
    /\ data' = [data EXCEPT !.pc = "returned", !.valid = isValidInputDataType(data.type, data.d)]
    /\ UNCHANGED <<readerVars, analyzerVars, reads, call, document, cli, metadata, actionYaml>>

NextData == isValidInputDataTypeReturns

SpecData == InitData /\ [][NextData]_vars

(***************************************************************************)
(* #analyzeJob of GHWorkflowAnalyzer (workflowAnalyzer.ts): the checks made*)
(* once the called workflow or the used action is loaded. A message is the *)
(* sequence of its pieces; the backquote of the source is written '.       *)
(***************************************************************************)
\* an input of `on.workflow_call.inputs`; `default` is Undefined when the
\* input declares none, `required` is FALSE also when it is left out
WorkflowInput(id, type, required, default) ==
    [ id |-> id, type |-> type, required |-> required, default |-> default ]

\* a job that uses a workflow; `with` maps the supplied input ids to values
UsesJob(uses, hasWith, with) ==
    [ KIND |-> "uses", uses |-> uses, hasWith |-> hasWith, with |-> with, steps |-> <<>> ]

NoMessage == <<>>

MsgRequiresWorkflowCall(jobId) ==
    << "job '", jobId, "' using a workflow requires 'on.workflow_call:' in the called workflow" >>

MsgWorkflowInputRequired(inputId, jobId) ==
    << "input '", inputId, "' is required to call workflow from job '", jobId, "'" >>

MsgWorkflowInputType(inputId, type, jobId, dataType) ==
    << "input '", inputId, "' is a '", type, "' input and job '", jobId,
       "' cannot call workflow with a '", dataType, "' value" >>

\* `input.required && typeof input.default === 'undefined'`, mutated: the
\* default is not looked at
MustBeSuppliedIgnoringDefault(input) == input.required

\* `input.required && typeof input.default === 'undefined'`
MustBeSupplied(input) == input.required /\ input.default = Undefined

\* `!job.with || !(inputId in job.with)`
NotInWith(user, inputId) == ~user.hasWith \/ inputId \notin DOMAIN user.with

\* the loop over Object.entries(onCall.inputs) from its n-th entry on: the
\* message of the RuntimeError it throws, NoMessage if it completes
RECURSIVE checkWorkflowInputs(_, _, _, _)
checkWorkflowInputs(jobId, job, inputs, n) ==
    IF n > Len(inputs) THEN NoMessage
    ELSE LET input == inputs[n] IN
         IF MustBeSupplied(input)
         THEN IF NotInWith(job, input.id)
              THEN MsgWorkflowInputRequired(input.id, jobId)
              ELSE IF ~isValidInputDataType(input.type, job.with[input.id])
              THEN MsgWorkflowInputType(input.id, input.type, jobId, typeof(job.with[input.id]))
              ELSE checkWorkflowInputs(jobId, job, inputs, n + 1)
         ELSE checkWorkflowInputs(jobId, job, inputs, n + 1)

\* #analyzeJob after `await this.#getWorkflow(job.uses, workflow)`, mutated:
\* `on.workflow_call` is not asked for
checkWorkflowCallOnAnyEvent(jobId, job, usesWorkflow) ==
    checkWorkflowInputs(jobId, job, usesWorkflow.callInputs, 1)

\* #analyzeJob after `await this.#getWorkflow(job.uses, workflow)`
checkWorkflowCall(jobId, job, usesWorkflow) ==
    IF "workflow_call" \notin usesWorkflow.events
    THEN MsgRequiresWorkflowCall(jobId)
    ELSE checkWorkflowInputs(jobId, job, usesWorkflow.callInputs, 1)

\* ids of declared inputs, in the order they are declared
InputIds == << "run_tests", "node_version", "channel", "target" >>
InputIdsUpTo(n) == { InputIds[i] : i \in 1..n }

\* the input declarations a callee can have
WorkflowInputLists ==
    UNION { { [ i \in 1..n |-> WorkflowInput(InputIds[i], f[i][1], f[i][2], f[i][3]) ] :
                f \in [ 1..n -> {"boolean", "number", "string"} \X BOOLEAN \X {Undefined, "true"} ] } :
            n \in 0..MaxInputs }

\* the workflows a job can call
CalledWorkflows ==
    { Workflow({"pull_request", "push"}, <<>>, <<>>) }
      \cup { Workflow({"workflow_call"}, inputs, <<>>) : inputs \in WorkflowInputLists }

\* values of `with`: true, 1, "a", "${{}}" and ""
WithValues ==
    { Value("boolean", <<"t", "r", "u", "e">>), Value("number", <<"1">>),
      Value("string", <<"a">>), Value("string", <<"$", "{", "{", "}", "}">>),
      Value("string", <<>>) }

WithMaps == UNION { [ D -> WithValues ] : D \in SUBSET InputIdsUpTo(MaxInputs) }

NoWith == [ i \in {} |-> Value("string", <<>>) ]

CallingJobs ==
    { UsesJob("./.github/workflows/verify.yml", FALSE, NoWith) }
      \cup { UsesJob("./.github/workflows/verify.yml", TRUE, with) : with \in WithMaps }

InitCall ==
    /\ call \in [ pc : {"called"}, jobId : {"verify"}, job : CallingJobs,
                  usesWorkflow : CalledWorkflows, message : {NoMessage} ]
    /\ data = <<>>
    /\ document = <<>> /\ cli = <<>> /\ metadata = <<>> /\ actionYaml = <<>>
    /\ cache = <<>>
    /\ fetched = <<>>
    /\ requests = <<>>
    /\ workflows = <<>>
    /\ fetchCount = <<>>
    /\ run = <<>>
    /\ jobs = <<>>
    /\ raised = <<>>
    /\ reads = <<>>

checkWorkflowCallReturns ==
    /\ call.pc = "called"
    /\ call' = [call EXCEPT !.pc = "returned",
                            !.message = checkWorkflowCall(call.jobId, call.job, call.usesWorkflow)]
    /\ UNCHANGED <<readerVars, analyzerVars, reads, data, document, cli, metadata, actionYaml>>

NextCall == checkWorkflowCallReturns

SpecCall == InitCall /\ [][NextCall]_vars

(***************************************************************************)
(* FileReader (fileReader.ts)                                              *)
(***************************************************************************)
Kinds == {"workflows.filesystem", "workflows.repository", "actions.repository"}
Keys == {"k1", "k2"}
\* __PATH of the workflows that reference a target
ReferencingPaths == {".github/workflows/a.yml", ".github/workflows/b.yml"}

EmptyOf(kind) == IF kind = "actions.repository" THEN EmptyAction ELSE EmptyWorkflow

\* errors thrown by a FileFetcher (fsFileFetcher.ts) and by a RepoObjectFetcher
\* (repoObjectFetcher.ts)
FileFetcherErrors == { OtherError("FileNotFoundError", 0), OtherError("Error", 0) }
RepoObjectFetcherErrors ==
    { OtherError("GitHubApiNotFound", 0), OtherError("NetworkError", 0),
      OtherError("GitHubApiRateLimited", 1), OtherError("GitHubApiUnauthorized", 0),
      OtherError("Error", 0) }

FetcherErrors(kind) ==
    IF kind = "workflows.filesystem" THEN FileFetcherErrors ELSE RepoObjectFetcherErrors

\* the read results the fetched texts of the reader's targets can have
ReaderDocs(kind) ==
    { ReadResult(FALSE, EmptyOf(kind), l) : l \in SchemaErrorLists }
      \cup { ReadResult(TRUE, EmptyOf(kind), <<>>) }

\* the error a reader throws for a text it cannot read at all
ReadThrows == OtherError("Error", 0)

\* the catch block of #readWorkflowFromFilesystem
CatchWorkflowFromFilesystem(p, referencedBy, e) ==
    IF e.class = "FileNotFoundError"
    THEN NewGHWorkflowError("WORKFLOW_NOT_FOUND", p, Undefined, <<>>, referencedBy, <<>>)
    ELSE e

\* #readWorkflowFromFilesystem: the promise it settles to, given what
\* #files.fetchFile threw (NoError if nothing) and what the text reads as
readWorkflowFromFilesystem(p, referencedBy, fetchError, doc) ==
    IF fetchError # NoError
    THEN Rejected(EmptyWorkflow, CatchWorkflowFromFilesystem(p, referencedBy, fetchError), referencedBy)
    ELSE IF doc.throws
    THEN Rejected(EmptyWorkflow, CatchWorkflowFromFilesystem(p, referencedBy, ReadThrows), referencedBy)
    ELSE IF Len(doc.schemaErrors) > 0
    THEN Rejected(EmptyWorkflow,
                  CatchWorkflowFromFilesystem(p, referencedBy,
                      NewGHWorkflowError("WORKFLOW_SCHEMA", p, Undefined, <<>>,
                                         referencedBy, doc.schemaErrors)),
                  referencedBy)
    ELSE Fulfilled([doc.model EXCEPT !.PATH = p])

\* the catch block of #readWorkflowFromRepository
CatchWorkflowFromRepository(specifier, referencedBy, e) ==
    IF e.class = "GitHubApiNotFound" \/ e.class = "NetworkError"
    THEN NewGHWorkflowError("WORKFLOW_NOT_FOUND", specifier, Undefined, <<>>, referencedBy, <<>>)
    ELSE e

\* #readWorkflowFromRepository
readWorkflowFromRepository(specifier, referencedBy, fetchError, doc) ==
    IF fetchError # NoError
    THEN Rejected(EmptyWorkflow, CatchWorkflowFromRepository(specifier, referencedBy, fetchError), referencedBy)
    ELSE IF doc.throws
    THEN Rejected(EmptyWorkflow, CatchWorkflowFromRepository(specifier, referencedBy, ReadThrows), referencedBy)
    ELSE IF Len(doc.schemaErrors) > 0
    THEN Rejected(EmptyWorkflow,
                  CatchWorkflowFromRepository(specifier, referencedBy,
                      NewGHWorkflowError("WORKFLOW_SCHEMA", specifier, Undefined, <<>>,
                                         referencedBy, doc.schemaErrors)),
                  referencedBy)
    ELSE Fulfilled(doc.model)

\* the catch block of #readActionFromRepository, mutated: every error of the
\* GitHub API counts as the action not being there
CatchActionFromRepositoryAnyApiError(specifier, referencedBy, e) ==
    IF e.class \in {"GitHubApiNotFound", "NetworkError", "GitHubApiRateLimited", "GitHubApiUnauthorized"}
    THEN NewGHWorkflowError("ACTION_NOT_FOUND", referencedBy, specifier, <<>>, Undefined, <<>>)
    ELSE e

\* the catch block of #readActionFromRepository
CatchActionFromRepository(specifier, referencedBy, e) ==
    IF e.class = "GitHubApiNotFound" \/ e.class = "NetworkError"
    THEN NewGHWorkflowError("ACTION_NOT_FOUND", referencedBy, specifier, <<>>, Undefined, <<>>)
    ELSE e

\* #readActionFromRepository
readActionFromRepository(specifier, referencedBy, fetchError, doc) ==
    IF fetchError # NoError
    THEN Rejected(EmptyAction, CatchActionFromRepository(specifier, referencedBy, fetchError), referencedBy)
    ELSE IF doc.throws
    THEN Rejected(EmptyAction, CatchActionFromRepository(specifier, referencedBy, ReadThrows), referencedBy)
    ELSE IF Len(doc.schemaErrors) > 0
    THEN Rejected(EmptyAction,
                  CatchActionFromRepository(specifier, referencedBy,
                      NewGHWorkflowError("ACTION_SCHEMA", referencedBy, specifier, <<>>,
                                         Undefined, doc.schemaErrors)),
                  referencedBy)
    ELSE Fulfilled(doc.model)

\* the private read method behind each accessor, mutated: the workflow that
\* references the target is not handed on
ReadOfUnreferenced(kind, key, referencedBy, fetchError, doc) ==
    CASE kind = "workflows.filesystem" -> readWorkflowFromFilesystem(key, Undefined, fetchError, doc)
      [] kind = "workflows.repository" -> readWorkflowFromRepository(key, Undefined, fetchError, doc)
      [] kind = "actions.repository" -> readActionFromRepository(key, Undefined, fetchError, doc)

\* the private read method behind each accessor
ReadOf(kind, key, referencedBy, fetchError, doc) ==
    CASE kind = "workflows.filesystem" -> readWorkflowFromFilesystem(key, referencedBy, fetchError, doc)
      [] kind = "workflows.repository" -> readWorkflowFromRepository(key, referencedBy, fetchError, doc)
      [] kind = "actions.repository" -> readActionFromRepository(key, referencedBy, fetchError, doc)

\* `!cache[key]` of the accessors, mutated: a promise is kept only while it
\* has not rejected
CacheMissForgetsFailure(kind, key) == cache[kind][key].state \in {"absent", "rejected"}

\* `!cache[key]` of the accessors, mutated: only settled promises count
CacheMissWhilePending(kind, key) == cache[kind][key].state \in {"absent", "pending"}

\* `!cache[key]` of the accessors
CacheMiss(kind, key) == cache[kind][key].state = "absent"

\* an accessor call: where it stands, its arguments, the state it found the
\* promise of its key in, and the outcome its caller receives
IdleRequest == [ pc |-> "idle", kind |-> "workflows.filesystem", key |-> "k1",
                 referencedBy |-> Undefined, found |-> "absent",
                 state |-> "pending", error |-> NoError ]

\* an accessor call up to its `await cache[key]`: on a miss the private read
\* method is called, which calls the fetcher before it first suspends
\* (the calls are numbered in the order they are made, and the keys of a kind
\* in the order they are first asked for)
Accessor(r, kind, key, referencedBy) ==
    /\ requests[r].pc = "idle"
    /\ \A q \in 1..(r - 1) : requests[q].pc # "idle"
    /\ key = "k2" => cache[kind]["k1"].state # "absent"
    /\ IF CacheMiss(kind, key)
       THEN /\ cache' = [cache EXCEPT ![kind][key] = Pending(EmptyOf(kind), referencedBy)]
            /\ fetched' = [fetched EXCEPT ![<<kind, key>>] = @ + 1]
       ELSE UNCHANGED <<cache, fetched>>
    /\ requests' = [requests EXCEPT ![r] =
           [ pc |-> "awaiting", kind |-> kind, key |-> key, referencedBy |-> referencedBy,
             found |-> cache[kind][key].state, state |-> "pending", error |-> NoError ]]
    /\ UNCHANGED <<analyzerVars, reads, call, data, document, cli, metadata, actionYaml>>

workflowFromFilesystem(r) ==
    \E p \in Keys, referencedBy \in ReferencingPaths \cup {Undefined} :
        Accessor(r, "workflows.filesystem", p, referencedBy)

workflowFromRepository(r) ==
    \E specifier \in Keys, referencedBy \in ReferencingPaths :
        Accessor(r, "workflows.repository", specifier, referencedBy)

actionFromRepository(r) ==
    \E specifier \in Keys, referencedBy \in ReferencingPaths :
        Accessor(r, "actions.repository", specifier, referencedBy)

\* the fetcher of a pending read returns a text
ReaderFetchReturns(kind, key) ==
    /\ cache[kind][key].state = "pending"
    /\ \E doc \in ReaderDocs(kind) :
           /\ cache' = [cache EXCEPT ![kind][key] =
                           ReadOf(kind, key, cache[kind][key].referencedBy, NoError, doc)]
           /\ reads' = [reads EXCEPT ![<<kind, key>>] = FetchOutcome(NoError, doc)]
    /\ UNCHANGED <<fetched, requests, analyzerVars, call, data, document, cli, metadata, actionYaml>>

\* the fetcher of a pending read throws
ReaderFetchThrows(kind, key) ==
    /\ cache[kind][key].state = "pending"
    /\ \E e \in FetcherErrors(kind) :
           /\ cache' = [cache EXCEPT ![kind][key] =
                           ReadOf(kind, key, cache[kind][key].referencedBy, e,
                                  ReadResult(TRUE, EmptyOf(kind), <<>>))]
           /\ reads' = [reads EXCEPT ![<<kind, key>>] =
                           FetchOutcome(e, ReadResult(TRUE, EmptyOf(kind), <<>>))]
    /\ UNCHANGED <<fetched, requests, analyzerVars, call, data, document, cli, metadata, actionYaml>>

\* `return await cache[key]` resumes with the settled promise
AccessorReturns(r) ==
    /\ requests[r].pc = "awaiting"
    /\ Settled(cache[requests[r].kind][requests[r].key])
    /\ requests' = [requests EXCEPT ![r].pc = "done",
                                    ![r].state = cache[requests[r].kind][requests[r].key].state,
                                    ![r].error = cache[requests[r].kind][requests[r].key].error]
    /\ UNCHANGED <<cache, fetched, analyzerVars, reads, call, data, document, cli, metadata, actionYaml>>

\* createReaderCache() and no call made yet
InitReader ==
    /\ cache = [kind \in Kinds |-> [key \in Keys |-> Absent(EmptyOf(kind))]]
    /\ fetched = [t \in Kinds \X Keys |-> 0]
    /\ requests = [r \in 1..MaxRequests |-> IdleRequest]
    /\ reads = [t \in Kinds \X Keys |-> NotRead]
    /\ workflows = <<>>
    /\ fetchCount = <<>>
    /\ run = <<>>
    /\ jobs = <<>>
    /\ raised = <<>>
    /\ call = <<>>
    /\ data = <<>>
    /\ document = <<>> /\ cli = <<>> /\ metadata = <<>> /\ actionYaml = <<>>

NextReader ==
    \/ \E r \in 1..MaxRequests : workflowFromFilesystem(r)
    \/ \E r \in 1..MaxRequests : workflowFromRepository(r)
    \/ \E r \in 1..MaxRequests : actionFromRepository(r)
    \/ \E kind \in Kinds, key \in Keys : ReaderFetchReturns(kind, key)
    \/ \E kind \in Kinds, key \in Keys : ReaderFetchThrows(kind, key)
    \/ \E r \in 1..MaxRequests : AccessorReturns(r)

SpecReader == InitReader /\ [][NextReader]_vars

(***************************************************************************)
(* GHWorkflowAnalyzer (workflowAnalyzer.ts): one analyzeWorkflow call. The *)
(* code runs on one thread: an action is what runs between two awaits of   *)
(* fetched texts, continuations of a settled promise in the order of their *)
(* subscription.                                                           *)
(***************************************************************************)
TopPath == ".github/workflows/ci.yml"
CalledPath == "./.github/workflows/verify.yml"
RepositoryWorkflow == "eighty4/l3/.github/workflows/verify.yml@main"
Checkout == "actions/checkout@v4"
SetupNode == "actions/setup-node@v4"
WorkflowPaths == {TopPath, CalledPath}
ActionSpecifiers == {Checkout, SetupNode}
\* specifiers of actions that are not in a repository: a Docker image and a
\* directory of the project
DockerAction == "docker://alpine:3"
FilesystemAction == "./.github/actions/setup"
Targets ==
    WorkflowPaths \cup ActionSpecifiers \cup {RepositoryWorkflow, DockerAction, FilesystemAction}

\* `job.uses.startsWith('./')`, for the values of `uses` above
StartsWithDotSlash(uses) == uses = CalledPath

\* a step of a job; `id` and `name` are Undefined when left out
Step(kind, uses, hasWith, with, id, name) ==
    [ KIND |-> kind, uses |-> uses, hasWith |-> hasWith, with |-> with, id |-> id, name |-> name ]

RunStep == Step("run", [KIND |-> "none", specifier |-> ""], FALSE, NoWith, Undefined, Undefined)

UsesStep(usesKind, specifier, hasWith, with, id, name) ==
    Step("uses", [KIND |-> usesKind, specifier |-> specifier], hasWith, with, id, name)

StepsJob(steps) ==
    [ KIND |-> "steps", uses |-> "", hasWith |-> FALSE, with |-> NoWith, steps |-> steps ]

\* an input of an action
ActionInput(id, required, default) == [ id |-> id, required |-> required, default |-> default ]

MsgActionInputRequired(inputId, specifier, label, jobId) ==
    << "input '", inputId, "' is required to call action '", specifier,
       "' from '", label, "' in job '", jobId, "'" >>

\* `step[${stepIndex}]` for the keys of Object.entries(job.steps)
StepIndexLabel(stepIndex) == << "step[0]", "step[1]", "step[2]" >>[stepIndex]

Falsy(s) == s \in {Undefined, ""}

\* `step.id || step.name || ...`, mutated: the name goes before the id
StepLabelNameFirst(step, stepIndex) ==
    IF ~Falsy(step.name) THEN step.name
    ELSE IF ~Falsy(step.id) THEN step.id
    ELSE StepIndexLabel(stepIndex)

\* `step.id || step.name || `step[${stepIndex}]``
StepLabel(step, stepIndex) ==
    IF ~Falsy(step.id) THEN step.id
    ELSE IF ~Falsy(step.name) THEN step.name
    ELSE StepIndexLabel(stepIndex)

\* the loop over Object.entries(action.inputs) from its n-th entry on: the
\* message of the RuntimeError it throws, NoMessage if it completes
RECURSIVE checkActionInputs(_, _, _, _, _)
checkActionInputs(jobId, step, stepIndex, inputs, n) ==
    IF n > Len(inputs) THEN NoMessage
    ELSE IF MustBeSupplied(inputs[n]) /\ NotInWith(step, inputs[n].id)
    THEN MsgActionInputRequired(inputs[n].id, step.uses.specifier,
                                StepLabel(step, stepIndex), jobId)
    ELSE checkActionInputs(jobId, step, stepIndex, inputs, n + 1)

\* `schemaErrors.length`, mutated: schema errors are not looked at
SchemaErrorsIgnored(schemaErrors) == FALSE

\* `schemaErrors.length` of #readWorkflow and #readAction
HasSchemaErrors(schemaErrors) == Len(schemaErrors) > 0

\* the catch block of #readWorkflow
CatchReadWorkflow(p, referencedBy, e) ==
    IF e.class = "FileNotFoundError"
    THEN NewGHWorkflowError("WORKFLOW_NOT_FOUND", p, Undefined, <<>>, referencedBy, <<>>)
    ELSE e

\* #readWorkflow: the promise it settles to, given what #files.fetchFile
\* threw (NoError if nothing) and what the text reads as; referencedBy is
\* `referencedBy?.__PATH`
readWorkflow(p, referencedBy, fetchError, doc) ==
    IF fetchError # NoError
    THEN Rejected(EmptyWorkflow, CatchReadWorkflow(p, referencedBy, fetchError), referencedBy)
    ELSE IF doc.throws
    THEN Rejected(EmptyWorkflow, CatchReadWorkflow(p, referencedBy, ReadThrows), referencedBy)
    ELSE IF HasSchemaErrors(doc.schemaErrors)
    THEN Rejected(EmptyWorkflow,
                  CatchReadWorkflow(p, referencedBy,
                      NewGHWorkflowError("WORKFLOW_SCHEMA", p, Undefined, <<>>,
                                         referencedBy, doc.schemaErrors)),
                  referencedBy)
    ELSE Fulfilled([doc.model EXCEPT !.PATH = p])

\* the catch block of #readAction
CatchReadAction(specifier, referencedBy, e) ==
    IF e.class = "GitHubApiNotFound" \/ e.class = "NetworkError"
    THEN NewGHWorkflowError("ACTION_NOT_FOUND", referencedBy, specifier, <<>>, Undefined, <<>>)
    ELSE e

\* #readAction: the promise it settles to; referencedBy is
\* `referencedBy.__PATH!`
readAction(specifier, referencedBy, fetchError, doc) ==
    IF fetchError # NoError
    THEN Rejected(EmptyAction, CatchReadAction(specifier, referencedBy, fetchError), referencedBy)
    ELSE IF doc.throws
    THEN Rejected(EmptyAction, CatchReadAction(specifier, referencedBy, ReadThrows), referencedBy)
    ELSE IF HasSchemaErrors(doc.schemaErrors)
    THEN Rejected(EmptyAction,
                  CatchReadAction(specifier, referencedBy,
                      NewGHWorkflowError("ACTION_SCHEMA", referencedBy, specifier, <<>>,
                                         Undefined, doc.schemaErrors)),
                  referencedBy)
    ELSE Fulfilled(doc.model)

\* the catch block of analyzeWorkflow around #analyzeJob, for a RuntimeError
\* with the given message
RuntimeErrorOf(workflow, message) ==
    NewGHWorkflowError("WORKFLOW_RUNTIME", workflow.PATH, Undefined, message, Undefined, <<>>)

\* ids of the jobs of a workflow, in the order of Object.keys
JobIds == << "build", "test", "deploy", "verify" >>

\* the task of a job: where it stands, the step whose action it awaits or
\* has last loaded, that action once loaded, the schema errors read with the
\* last action text, and the error the task rejected with
JobTask(pc, step, loaded, action, schemaErrors, error) ==
    [ pc |-> pc, step |-> step, loaded |-> loaded, action |-> action,
      schemaErrors |-> schemaErrors, error |-> error ]

\* the first step from `from` on that uses an action, mutated: the kind of
\* the action is not looked at
NextRepositoryStepAnyKind(job, from) ==
    LET S == { i \in from..Len(job.steps) : job.steps[i].KIND = "uses" }
    IN  IF S = {} THEN 0 ELSE Min(S)

\* the first step from `from` on that uses a repository action, 0 if none
NextRepositoryStep(job, from) ==
    LET S == { i \in from..Len(job.steps) :
                 job.steps[i].KIND = "uses" /\ job.steps[i].uses.KIND = "repository" }
    IN  IF S = {} THEN 0 ELSE Min(S)

\* the loop over job.steps, mutated: it goes to the last step that uses a
\* repository action first
RunStepsLastFirst(job, from, task, count) ==
    LET S == { i \in from..Len(job.steps) :
                 job.steps[i].KIND = "uses" /\ job.steps[i].uses.KIND = "repository" }
        i == IF S = {} THEN 0 ELSE Max(S)
    IN
    IF i = 0
    THEN [ task |-> [task EXCEPT !.pc = "done"], count |-> count ]
    ELSE [ task |-> [task EXCEPT !.pc = "awaitAction", !.step = i, !.loaded = FALSE],
           count |-> [count EXCEPT ![job.steps[i].uses.specifier] = @ + 1] ]

\* the loop over job.steps from `from` on, up to its next await: the task
\* and the fetches counted, with #repoObjects.fetchActionMetadata called for
\* the step it stops at
RunSteps(job, from, task, count) ==
    LET i == NextRepositoryStep(job, from) IN
    IF i = 0
    THEN [ task |-> [task EXCEPT !.pc = "done"], count |-> count ]
    ELSE [ task |-> [task EXCEPT !.pc = "awaitAction", !.step = i, !.loaded = FALSE],
           count |-> [count EXCEPT ![job.steps[i].uses.specifier] = @ + 1] ]

NewTask == JobTask("new", 0, FALSE, EmptyAction, <<>>, NoError)

\* `#workflows[p] || ...` of #getWorkflow: no promise is kept for p
WorkflowsMiss(ws, p) == ws[p].state = "absent"

\* Object.keys(workflow.jobs).map(...) from the n-th job on: every task runs
\* up to its first await; st is the analyzer's state so far
RECURSIVE StartJobs(_, _, _)
StartJobs(workflow, n, st) ==
    IF n > Len(workflow.jobs) THEN st
    ELSE LET job == workflow.jobs[n] IN
         IF job.KIND = "uses" /\ StartsWithDotSlash(job.uses)
         THEN StartJobs(workflow, n + 1,
                  IF WorkflowsMiss(st.workflows, job.uses)
                  THEN [ workflows |-> [st.workflows EXCEPT
                                            ![job.uses] = Pending(EmptyWorkflow, workflow.PATH)],
                         fetchCount |-> [st.fetchCount EXCEPT ![job.uses] = @ + 1],
                         jobs |-> Append(st.jobs, [NewTask EXCEPT !.pc = "awaitWorkflow"]) ]
                  ELSE [st EXCEPT !.jobs = Append(@, [NewTask EXCEPT !.pc = "awaitWorkflow"])])
         ELSE IF job.KIND = "steps"
         THEN LET r == RunSteps(job, 1, NewTask, st.fetchCount) IN
              StartJobs(workflow, n + 1,
                  [st EXCEPT !.fetchCount = r.count, !.jobs = Append(@, r.task)])
         ELSE StartJobs(workflow, n + 1,
                  [st EXCEPT !.jobs = Append(@, [NewTask EXCEPT !.pc = "done"])])

\* the jobs whose tasks reject in a step from js to js2, in the order of
\* their rejections
NewlyRaised(js, js2) ==
    SelectSeq([ j \in 1..Len(js2) |-> j ],
              LAMBDA j : js2[j].pc = "failed" /\ (j > Len(js) \/ js[j].pc # "failed"))

\* Promise.all of analyzeWorkflow, mutated: the latest rejection replaces
\* the outcome
SettleRunLatestRejection(r, js, rs) ==
    IF r.pc \notin {"analyzing", "rejected"} THEN r
    ELSE IF rs # <<>> THEN [r EXCEPT !.pc = "rejected", !.error = js[rs[Len(rs)]].error]
    ELSE IF \A j \in 1..Len(js) : js[j].pc = "done" THEN [r EXCEPT !.pc = "resolved"]
    ELSE r

\* Promise.all of analyzeWorkflow: it rejects with the first rejection and
\* fulfils once every task has
SettleRun(r, js, rs) ==
    IF r.pc # "analyzing" THEN r
    ELSE IF rs # <<>> THEN [r EXCEPT !.pc = "rejected", !.error = js[rs[1]].error]
    ELSE IF \A j \in 1..Len(js) : js[j].pc = "done" THEN [r EXCEPT !.pc = "resolved"]
    ELSE r

\* the jobs a workflow under analysis is made of
JobShapes ==
    { UsesJob(CalledPath, FALSE, NoWith),
      UsesJob(CalledPath, TRUE, [ run_tests |-> Value("boolean", <<"t", "r", "u", "e">>) ]),
      UsesJob(RepositoryWorkflow, FALSE, NoWith),
      StepsJob(<< UsesStep("filesystem", FilesystemAction, FALSE, NoWith, Undefined, Undefined),
                  RunStep >>),
      StepsJob(<< UsesStep("repository", Checkout, FALSE, NoWith, Undefined, Undefined) >>),
      StepsJob(<< RunStep,
                  UsesStep("repository", Checkout, FALSE, NoWith, "checkout", "Checkout") >>),
      StepsJob(<< UsesStep("repository", Checkout, TRUE,
                           [ token |-> Value("string", <<"$", "{", "{", "}", "}">>) ],
                           Undefined, Undefined),
                  UsesStep("repository", Checkout, FALSE, NoWith, Undefined, "Checkout") >>),
      StepsJob(<< UsesStep("docker", "docker://alpine:3", FALSE, NoWith, Undefined, Undefined),
                  UsesStep("repository", SetupNode, TRUE, NoWith, Undefined, Undefined) >>) }

JobLists == UNION { [ 1..n -> JobShapes ] : n \in 1..MaxJobs }

\* what the text of the workflow under analysis reads as
TopDocs ==
    { ReadResult(TRUE, EmptyWorkflow, <<>>), ReadResult(FALSE, EmptyWorkflow, SomeSchemaErrors) }
      \cup { ReadResult(FALSE, Workflow({"pull_request", "push"}, <<>>, js), <<>>) : js \in JobLists }

\* what the text of a called workflow reads as
CalledDocs ==
    { ReadResult(TRUE, EmptyWorkflow, <<>>),
      ReadResult(FALSE, EmptyWorkflow, SomeSchemaErrors),
      ReadResult(FALSE, Workflow({"push"}, <<>>, << StepsJob(<< RunStep >>) >>), <<>>),
      ReadResult(FALSE, Workflow({"workflow_call"}, <<>>, << StepsJob(<< RunStep >>) >>), <<>>),
      ReadResult(FALSE, Workflow({"push", "workflow_call"},
                                 << WorkflowInput("run_tests", "boolean", TRUE, Undefined) >>,
                                 << StepsJob(<< RunStep >>) >>), <<>>) }

\* what the text of an action reads as
ActionDocs ==
    { ReadResult(TRUE, EmptyAction, <<>>),
      ReadResult(FALSE, EmptyAction, SomeSchemaErrors),
      ReadResult(FALSE, Action(<<>>), <<>>),
      ReadResult(FALSE, Action(<< ActionInput("token", TRUE, "x") >>), <<>>),
      ReadResult(FALSE, Action(<< ActionInput("fetch-depth", FALSE, Undefined),
                                  ActionInput("token", TRUE, Undefined) >>), <<>>) }

\* new GHWorkflowAnalyzer(files, repoObjects)
InitAnalyzer ==
    /\ workflows = [ p \in WorkflowPaths |-> Absent(EmptyWorkflow) ]
    /\ fetchCount = [ t \in Targets |-> 0 ]
    /\ reads = [ p \in WorkflowPaths |-> NotRead ]
    /\ run = [ pc |-> "idle", workflow |-> EmptyWorkflow, error |-> NoError ]
    /\ jobs = <<>>
    /\ raised = <<>>
    /\ cache = <<>>
    /\ fetched = <<>>
    /\ requests = <<>>
    /\ call = <<>>
    /\ data = <<>>
    /\ document = <<>> /\ cli = <<>> /\ metadata = <<>> /\ actionYaml = <<>>

\* analyzeWorkflow(wfPath) up to `await this.#getWorkflow(wfPath)`
analyzeWorkflow ==
    /\ run.pc = "idle"
    /\ WorkflowsMiss(workflows, TopPath)
    /\ workflows' = [workflows EXCEPT ![TopPath] = Pending(EmptyWorkflow, Undefined)]
    /\ fetchCount' = [fetchCount EXCEPT ![TopPath] = @ + 1]
    /\ run' = [run EXCEPT !.pc = "loading"]
    /\ UNCHANGED <<reads, jobs, raised, readerVars, call, data, document, cli, metadata, actionYaml>>

\* analyzeWorkflow from the settling of #getWorkflow(wfPath) on: it rejects,
\* or starts the task of every job
TopWorkflowSettles(fetchError, doc) ==
    LET promise == readWorkflow(TopPath, Undefined, fetchError, doc) IN
    /\ run.pc = "loading"
    /\ workflows[TopPath].state = "pending"
    /\ reads' = [reads EXCEPT ![TopPath] = FetchOutcome(fetchError, doc)]
    /\ IF promise.state = "rejected"
       THEN /\ workflows' = [workflows EXCEPT ![TopPath] = promise]
            /\ run' = [run EXCEPT !.pc = "rejected", !.error = promise.error]
            /\ UNCHANGED <<fetchCount, jobs, raised>>
       ELSE LET st == StartJobs(promise.value, 1,
                          [ workflows |-> [workflows EXCEPT ![TopPath] = promise],
                            fetchCount |-> fetchCount,
                            jobs |-> <<>> ])
            IN  /\ workflows' = st.workflows
                /\ fetchCount' = st.fetchCount
                /\ jobs' = st.jobs
                /\ raised' = raised
                /\ run' = SettleRun([run EXCEPT !.pc = "analyzing", !.workflow = promise.value],
                                    st.jobs, <<>>)
    /\ UNCHANGED <<readerVars, call, data, document, cli, metadata, actionYaml>>

TopWorkflowFetchReturns == \E doc \in TopDocs : TopWorkflowSettles(NoError, doc)

TopWorkflowFetchThrows == \E e \in FileFetcherErrors : TopWorkflowSettles(e, ReadResult(TRUE, EmptyWorkflow, <<>>))

\* #analyzeJob of a job that uses a workflow, from the settling of
\* #getWorkflow(job.uses, workflow) on
ResumeWithWorkflow(j, task, promise) ==
    IF promise.state = "rejected"
    THEN [task EXCEPT !.pc = "failed", !.error = promise.error]
    ELSE LET message == checkWorkflowCall(JobIds[j], run.workflow.jobs[j], promise.value) IN
         IF message # NoMessage
         THEN [task EXCEPT !.pc = "failed", !.error = RuntimeErrorOf(run.workflow, message)]
         ELSE [task EXCEPT !.pc = "done"]

\* the promise of a called workflow settles and every task that awaits it
\* goes on
CalledWorkflowSettles(p, fetchError, doc) ==
    LET promise == readWorkflow(p, workflows[p].referencedBy, fetchError, doc)
        js == [ j \in 1..Len(jobs) |->
                  IF jobs[j].pc = "awaitWorkflow" /\ run.workflow.jobs[j].uses = p
                  THEN ResumeWithWorkflow(j, jobs[j], promise)
                  ELSE jobs[j] ]
    IN
    /\ p # TopPath
    /\ workflows[p].state = "pending"
    /\ workflows' = [workflows EXCEPT ![p] = promise]
    /\ reads' = [reads EXCEPT ![p] = FetchOutcome(fetchError, doc)]
    /\ jobs' = js
    /\ raised' = raised \o NewlyRaised(jobs, js)
    /\ run' = SettleRun(run, js, raised')
    /\ UNCHANGED <<fetchCount, readerVars, call, data, document, cli, metadata, actionYaml>>

CalledWorkflowFetchReturns ==
    \E p \in WorkflowPaths, doc \in CalledDocs : CalledWorkflowSettles(p, NoError, doc)

CalledWorkflowFetchThrows ==
    \E p \in WorkflowPaths, e \in FileFetcherErrors :
        CalledWorkflowSettles(p, e, ReadResult(TRUE, EmptyWorkflow, <<>>))

\* #analyzeJob of a job with steps, from the settling of the #readAction
\* call it awaits on
ActionSettles(j, fetchError, doc) ==
    LET job == run.workflow.jobs[j]
        i == jobs[j].step
        step == job.steps[i]
        promise == readAction(step.uses.specifier, run.workflow.PATH, fetchError, doc)
        read == [jobs[j] EXCEPT !.schemaErrors = FetchOutcome(fetchError, doc).schemaErrors]
        message == checkActionInputs(JobIds[j], step, i, promise.value.inputs, 1)
        next == RunSteps(job, i + 1,
                         [read EXCEPT !.loaded = TRUE, !.action = promise.value], fetchCount)
        js == [jobs EXCEPT ![j] =
                  IF promise.state = "rejected"
                  THEN [read EXCEPT !.pc = "failed", !.error = promise.error]
                  ELSE IF message # NoMessage
                  THEN [read EXCEPT !.pc = "failed", !.loaded = TRUE, !.action = promise.value,
                                    !.error = RuntimeErrorOf(run.workflow, message)]
                  ELSE next.task]
    IN
    /\ jobs[j].pc = "awaitAction"
    /\ jobs' = js
    /\ fetchCount' = IF js[j].pc = "awaitAction" THEN next.count ELSE fetchCount
    /\ raised' = raised \o NewlyRaised(jobs, js)
    /\ run' = SettleRun(run, js, raised')
    /\ UNCHANGED <<workflows, reads, readerVars, call, data, document, cli, metadata, actionYaml>>

ActionFetchReturns ==
    \E j \in 1..Len(jobs), doc \in ActionDocs : ActionSettles(j, NoError, doc)

ActionFetchThrows ==
    \E j \in 1..Len(jobs), e \in RepoObjectFetcherErrors :
        ActionSettles(j, e, ReadResult(TRUE, EmptyAction, <<>>))

NextAnalyzer ==
    \/ analyzeWorkflow
    \/ TopWorkflowFetchReturns
    \/ TopWorkflowFetchThrows
    \/ CalledWorkflowFetchReturns
    \/ CalledWorkflowFetchThrows
    \/ ActionFetchReturns
    \/ ActionFetchThrows

SpecAnalyzer == InitAnalyzer /\ [][NextAnalyzer]_vars

(***************************************************************************)
(* The cache: one load per key                                             *)
(***************************************************************************)
PromiseOf(r) == cache[requests[r].kind][requests[r].key]

\* C1: for each accessor and every key, however the calls for the key
\* interleave, the fetcher is called at most once for the key and every
\* caller receives the outcome of the one promise kept for the key.
C1_FetchedOncePerKey ==
    /\ \A kind \in Kinds, key \in Keys : fetched[<<kind, key>>] <= 1
    /\ \A r \in 1..MaxRequests :
           requests[r].pc = "done" =>
               /\ Settled(PromiseOf(r))
               /\ requests[r].state = PromiseOf(r).state
               /\ requests[r].error = PromiseOf(r).error
    /\ \A r, q \in 1..MaxRequests :
           ( /\ requests[r].pc = "done" /\ requests[q].pc = "done"
             /\ requests[r].kind = requests[q].kind /\ requests[r].key = requests[q].key )
           => /\ requests[r].state = requests[q].state
              /\ requests[r].error = requests[q].error

\* two calls for one key, the second made while the load was pending, have
\* both returned
C1_Witness ==
    \E r, q \in 1..MaxRequests :
        /\ r # q
        /\ requests[r].pc = "done" /\ requests[q].pc = "done"
        /\ requests[r].kind = requests[q].kind /\ requests[r].key = requests[q].key
        /\ requests[r].found = "absent" /\ requests[q].found = "pending"
        /\ fetched[<<requests[r].kind, requests[r].key>>] = 1

\* C2: a failed load stays in the cache: the rejected promise of a key is
\* never replaced, the fetcher is not called again for the key, and every
\* call made after the failure fails with that same error.
C2_FailureIsCached ==
    /\ [][ \A kind \in Kinds, key \in Keys :
              cache[kind][key].state = "rejected" =>
                  /\ cache'[kind][key] = cache[kind][key]
                  /\ fetched'[<<kind, key>>] = fetched[<<kind, key>>] ]_vars
    /\ [](\A r \in 1..MaxRequests :
              (requests[r].pc = "done" /\ requests[r].found = "rejected") =>
                  /\ requests[r].state = "rejected"
                  /\ requests[r].error = PromiseOf(r).error
                  /\ PromiseOf(r).state = "rejected")

\* a call made after the load of its key had failed has returned
C2_Witness ==
    \E r \in 1..MaxRequests :
        /\ requests[r].pc = "done"
        /\ requests[r].found = "rejected"
        /\ requests[r].state = "rejected"
        /\ requests[r].error.code = "WORKFLOW_NOT_FOUND"

\* the classes of error by which a fetcher says the target is not found or
\* the network failed
NotFoundClasses == {"FileNotFoundError", "GitHubApiNotFound", "NetworkError"}

\* C9: when the fetcher of a load ends with a not-found error (file not
\* found, GitHub API not found) or with a NetworkError, the load fails with
\* WORKFLOW_NOT_FOUND for a workflow and ACTION_NOT_FOUND for an action, and
\* the error carries the path of the workflow that referenced the target:
\* as `referencedBy` of a workflow's error, null for a workflow nothing
\* referenced, and as `workflow` of an action's error, next to the action's
\* specifier.
C9_NotFoundCarriesReferencedBy ==
    \A kind \in Kinds, key \in Keys :
        reads[<<kind, key>>].thrown \in NotFoundClasses =>
            /\ cache[kind][key].state = "rejected"
            /\ cache[kind][key].error.class = "GHWorkflowError"
            /\ IF kind = "actions.repository"
               THEN /\ cache[kind][key].error.code = "ACTION_NOT_FOUND"
                    /\ cache[kind][key].error.action = key
                    /\ cache[kind][key].error.workflow = cache[kind][key].referencedBy
                    /\ cache[kind][key].referencedBy \in ReferencingPaths
               ELSE /\ cache[kind][key].error.code = "WORKFLOW_NOT_FOUND"
                    /\ cache[kind][key].error.workflow = key
                    /\ cache[kind][key].error.referencedBy =
                           IF cache[kind][key].referencedBy \in ReferencingPaths
                           THEN cache[kind][key].referencedBy ELSE Null

\* a repository workflow referenced by a.yml was not loaded for a
\* NetworkError, and a caller has received WORKFLOW_NOT_FOUND
C9_Witness ==
    \E r \in 1..MaxRequests :
        /\ requests[r].pc = "done"
        /\ requests[r].kind = "workflows.repository"
        /\ reads[<<requests[r].kind, requests[r].key>>].thrown = "NetworkError"
        /\ requests[r].error.code = "WORKFLOW_NOT_FOUND"
        /\ requests[r].error.referencedBy = ".github/workflows/a.yml"

(***************************************************************************)
(* Calling a workflow: required inputs and the kinds of their values       *)
(***************************************************************************)
CallReturned == call.pc = "returned"
CalleeInputs == call.usesWorkflow.callInputs
\* the input a raised message is about, 0 if the message is about none
RaisedAt ==
    IF \E n \in 1..Len(CalleeInputs) :
           Len(call.message) >= 2 /\ call.message[1] = "input '"
               /\ call.message[2] = CalleeInputs[n].id
    THEN CHOOSE n \in 1..Len(CalleeInputs) : call.message[2] = CalleeInputs[n].id
    ELSE 0
\* the check came as far as the n-th input
Reached(n) == call.message = NoMessage \/ RaisedAt >= n
Supplied(n) == call.job.hasWith /\ CalleeInputs[n].id \in DOMAIN call.job.with
RequiredWithoutDefault(n) == CalleeInputs[n].required /\ CalleeInputs[n].default = Undefined
MissingRequiredMessage(n) == MsgWorkflowInputRequired(CalleeInputs[n].id, call.jobId)
TypeMismatchMessage(n) ==
    MsgWorkflowInputType(CalleeInputs[n].id, CalleeInputs[n].type, call.jobId,
                         typeof(call.job.with[CalleeInputs[n].id]))

\* C5: when a job calls a workflow that declares `on.workflow_call`, the
\* error "input '<id>' is required to call workflow from job '<job>'" is
\* raised for an input the check comes to exactly when the input is required,
\* declares no default and is not supplied by the job's `with` (which may be
\* absent altogether); an input that is not required or that declares a
\* default never raises an error, supplied or not.
C5_MissingRequiredInput ==
    (CallReturned /\ "workflow_call" \in call.usesWorkflow.events) =>
        /\ \A n \in 1..Len(CalleeInputs) :
               Reached(n) =>
                   ( call.message = MissingRequiredMessage(n)
                       <=> (RequiredWithoutDefault(n) /\ ~Supplied(n)) )
        /\ \A n \in 1..Len(CalleeInputs) :
               ~RequiredWithoutDefault(n) => RaisedAt # n
        /\ call.message # NoMessage => RaisedAt \in 1..Len(CalleeInputs)
        /\ (\A n \in 1..Len(CalleeInputs) : ~RequiredWithoutDefault(n))
               => call.message = NoMessage

\* the second declared input is reported missing by a job that has a `with`,
\* after a first input that is required, has a default and is not supplied
C5_Witness ==
    /\ CallReturned
    /\ Len(CalleeInputs) >= 2
    /\ CalleeInputs[1].required /\ CalleeInputs[1].default # Undefined
    /\ call.job.hasWith /\ ~Supplied(1) /\ ~Supplied(2)
    /\ call.message = MissingRequiredMessage(2)

\* the kinds of value the documentation gives for each input type
AdmissibleKinds(type) ==
    CASE type = "boolean" -> {"boolean"}
      [] type = "number" -> {"number"}
      [] type = "string" -> {"boolean", "number", "string"}

SuppliedValue(n) == call.job.with[CalleeInputs[n].id]
KindAdmissible(n) == typeof(SuppliedValue(n)) \in AdmissibleKinds(CalleeInputs[n].type)

\* C6 as stated: a supplied value of a required input without default raises
\* the type error exactly when its kind is not admissible for the input's
\* type.
C6_MismatchExactlyWhenKindNotAdmissible ==
    (CallReturned /\ "workflow_call" \in call.usesWorkflow.events) =>
        \A n \in 1..Len(CalleeInputs) :
            (Reached(n) /\ RequiredWithoutDefault(n) /\ Supplied(n)) =>
                ( call.message = TypeMismatchMessage(n) <=> ~KindAdmissible(n) )

\* s is made of blanks and of expressions `${{ ... }}`, each on one line and
\* reaching to the first `}}` after its `${{`
RECURSIVE ExpressionsAndBlanks(_)
ExpressionsAndBlanks(s) ==
    IF s = <<>> THEN TRUE
    ELSE IF Head(s) \in WhiteSpace THEN ExpressionsAndBlanks(Tail(s))
    ELSE IF Len(s) >= 5 /\ s[1] = "$" /\ s[2] = "{" /\ s[3] = "{"
    THEN LET ends == { k \in 4..(Len(s) - 1) : s[k] = "}" /\ s[k + 1] = "}" } IN
         /\ ends # {}
         /\ \A m \in 4..(Min(ends) - 1) : s[m] \notin LineTerminators
         /\ ExpressionsAndBlanks(SubSeq(s, Min(ends) + 2, Len(s)))
    ELSE FALSE

\* s has an expression and nothing besides expressions but blanks
SolelyExpressions(s) == ExpressionsAndBlanks(s) /\ trim(s) # <<>>

\* s has text that is not blank and no `${{` anywhere
PlainText(s) ==
    /\ trim(s) # <<>>
    /\ ~\E i \in 1..(Len(s) - 2) : s[i] = "$" /\ s[i + 1] = "{" /\ s[i + 2] = "{"

\* C6: for a supplied value of a required input without default, the error
\* "input '<id>' is a '<type>' input and job '<job>' cannot call workflow
\* with a '<kind>' value" is never raised when the kind of the value is
\* admissible for the input's type (boolean: boolean; number: number; string:
\* boolean, number, string); it is raised when the kind is not admissible and
\* the value is a boolean, a number, or a string of plain text without any
\* expression; it is not raised when the value is a string made solely of
\* `${{ }}` expressions and blanks.
C6_MismatchUnlessSolelyExpressions ==
    (CallReturned /\ "workflow_call" \in call.usesWorkflow.events) =>
        \A n \in 1..Len(CalleeInputs) :
            (Reached(n) /\ RequiredWithoutDefault(n) /\ Supplied(n)) =>
                /\ KindAdmissible(n) => call.message # TypeMismatchMessage(n)
                /\ (~KindAdmissible(n) /\ typeof(SuppliedValue(n)) # "string")
                       => call.message = TypeMismatchMessage(n)
                /\ ( /\ ~KindAdmissible(n) /\ typeof(SuppliedValue(n)) = "string"
                     /\ PlainText(SuppliedValue(n).text) )
                       => call.message = TypeMismatchMessage(n)
                /\ ( /\ ~KindAdmissible(n) /\ typeof(SuppliedValue(n)) = "string"
                     /\ SolelyExpressions(SuppliedValue(n).text) )
                       => call.message # TypeMismatchMessage(n)

\* a boolean input supplied with the string "a" is reported, the kind in the
\* message being string
C6_Witness ==
    /\ CallReturned
    /\ Len(CalleeInputs) >= 1
    /\ CalleeInputs[1].type = "boolean"
    /\ Supplied(1)
    /\ SuppliedValue(1) = Value("string", <<"a">>)
    /\ call.message = MsgWorkflowInputType("run_tests", "boolean", "verify", "string")

(***************************************************************************)
(* Strings given to inputs that take no string                             *)
(***************************************************************************)
\* s has a `${{`, and a `}}` after it
ContainsExpression(s) ==
    \E i \in 1..Len(s), k \in 1..Len(s) :
        /\ i + 3 <= k /\ k + 1 <= Len(s)
        /\ s[i] = "$" /\ s[i + 1] = "{" /\ s[i + 2] = "{"
        /\ s[k] = "}" /\ s[k + 1] = "}"

\* the first `${{` of s that is closed, and the first `}}` closing it
FirstExpressionStart(s) ==
    Min({ i \in 1..Len(s) :
            /\ i + 2 <= Len(s) /\ s[i] = "$" /\ s[i + 1] = "{" /\ s[i + 2] = "{"
            /\ \E k \in (i + 3)..(Len(s) - 1) : s[k] = "}" /\ s[k + 1] = "}" })
FirstExpressionEnd(s) ==
    Min({ k \in (FirstExpressionStart(s) + 3)..(Len(s) - 1) : s[k] = "}" /\ s[k + 1] = "}" })

\* s without its expressions, each `${{` reaching to the first `}}` after it
RECURSIVE WithoutExpressions(_)
WithoutExpressions(s) ==
    IF ContainsExpression(s)
    THEN WithoutExpressions(SubSeq(s, 1, FirstExpressionStart(s) - 1)
                              \o SubSeq(s, FirstExpressionEnd(s) + 2, Len(s)))
    ELSE s

\* C7 as stated: a string given to an input whose type takes no string is
\* left unflagged only if it contains at least one expression and what
\* remains after removing every expression and trimming is empty; a string
\* without expression, or with literal text besides its expressions, is
\* flagged.
C7_StringUnflaggedOnlyForExpressions ==
    ( /\ data.pc = "returned"
      /\ typeof(data.d) = "string"
      /\ "string" \notin VALID_DATA_TYPES(data.type) ) =>
        ( data.valid <=> ( /\ ContainsExpression(data.d.text)
                           /\ trim(WithoutExpressions(data.d.text)) = <<>> ) )

(***************************************************************************)
(* One analyzeWorkflow run                                                 *)
(***************************************************************************)
\* C3 as stated: during one run, every distinct target is fetched at most
\* once, however many jobs or steps reference it.
C3_EachTargetFetchedOnce == \A t \in Targets : fetchCount[t] <= 1

\* the job's task has rejected with e, and so has analyzeWorkflow, with e if
\* the task was the first to reject
FailsWith(j, code, message) ==
    /\ jobs[j].pc = "failed"
    /\ jobs[j].error.class = "GHWorkflowError"
    /\ jobs[j].error.code = code
    /\ jobs[j].error.workflow = TopPath
    /\ jobs[j].error.message = message
    /\ run.pc = "rejected"
    /\ raised # <<>>
    /\ run.error = jobs[raised[1]].error
    /\ \E k \in 1..Len(raised) : raised[k] = j

\* C4: once the workflow a job calls is loaded without error and its `on`
\* has no `workflow_call`, the job's task has failed with WORKFLOW_RUNTIME
\* for the analyzed workflow and the message "job '<id>' using a workflow
\* requires 'on.workflow_call:' in the called workflow", and analyzeWorkflow
\* has failed, with this error if the job is the first whose task failed.
C4_RequiresWorkflowCall ==
    \A j \in 1..Len(jobs) :
        LET job == run.workflow.jobs[j] IN
        ( /\ job.KIND = "uses"
          /\ job.uses \in WorkflowPaths
          /\ workflows[job.uses].state = "fulfilled"
          /\ "workflow_call" \notin workflows[job.uses].value.events )
        => FailsWith(j, "WORKFLOW_RUNTIME",
                     << "job '", JobIds[j],
                        "' using a workflow requires 'on.workflow_call:' in the called workflow" >>)

\* the second job calls a workflow without `workflow_call`, the first job has
\* nothing to fail on, and analyzeWorkflow has failed with the error of the
\* second
C4_Witness ==
    /\ Len(jobs) = 2
    /\ jobs[1].pc = "done"
    /\ run.workflow.jobs[2].uses = CalledPath
    /\ workflows[CalledPath].state = "fulfilled"
    /\ "workflow_call" \notin workflows[CalledPath].value.events
    /\ run.pc = "rejected"
    /\ run.error.code = "WORKFLOW_RUNTIME"
    /\ run.error.message =
           << "job '", "test",
              "' using a workflow requires 'on.workflow_call:' in the called workflow" >>

\* the inputs of the action loaded for the step the task of job j stands at
\* that are required, have no default and are not in the step's `with`
MissingActionInputs(j) ==
    LET step == run.workflow.jobs[j].steps[jobs[j].step]
        inputs == jobs[j].action.inputs
    IN  { n \in 1..Len(inputs) :
            /\ inputs[n].required
            /\ inputs[n].default = Undefined
            /\ (~step.hasWith \/ inputs[n].id \notin DOMAIN step.with) }

\* the step's id if set, else its name if set, else step[<index>], the index
\* counting from 0
LabelOf(j) ==
    LET step == run.workflow.jobs[j].steps[jobs[j].step] IN
    IF step.id # Undefined THEN step.id
    ELSE IF step.name # Undefined THEN step.name
    ELSE IF jobs[j].step = 1 THEN "step[0]" ELSE "step[1]"

\* C8: once the action of a step that uses a repository action is loaded,
\* the job's task has failed if and only if an input of the action is
\* required, has no default and is absent from the step's `with`: then with
\* WORKFLOW_RUNTIME and the message "input '<iid>' is required to call action
\* '<specifier>' from '<label>' in job '<id>'" for the first such input, the
\* label being the step's id, else its name, else step[<index>], and
\* analyzeWorkflow has failed, with this error if the job is the first whose
\* task failed.
C8_ActionInputRequired ==
    \A j \in 1..Len(jobs) :
        (run.workflow.jobs[j].KIND = "steps" /\ jobs[j].loaded) =>
            IF MissingActionInputs(j) # {}
            THEN FailsWith(j, "WORKFLOW_RUNTIME",
                     << "input '", jobs[j].action.inputs[Min(MissingActionInputs(j))].id,
                        "' is required to call action '",
                        run.workflow.jobs[j].steps[jobs[j].step].uses.specifier,
                        "' from '", LabelOf(j), "' in job '", JobIds[j], "'" >>)
            ELSE jobs[j].pc = "done"

\* the second step of the first job, which has a name and no id, uses an
\* action whose second input is required and not supplied, after a first
\* step that supplied it
C8_Witness ==
    /\ Len(jobs) >= 1
    /\ jobs[1].pc = "failed"
    /\ jobs[1].step = 2
    /\ jobs[1].loaded
    /\ run.workflow.jobs[1].steps[1].hasWith
    /\ run.pc = "rejected"
    /\ run.error.message =
           << "input '", "token", "' is required to call action '", "actions/checkout@v4",
              "' from '", "Checkout", "' in job '", "build", "'" >>

\* C10: a workflow or an action whose text reads with schema errors is never
\* loaded: its load has failed with WORKFLOW_SCHEMA or ACTION_SCHEMA carrying
\* every schema error read, a task analyzes only what was read without
\* schema error, and when the load of the analyzed workflow fails
\* analyzeWorkflow fails with the error of the load, no task is started and
\* nothing else is fetched.
C10_NoModelWithSchemaErrors ==
    /\ \A p \in WorkflowPaths :
           /\ (reads[p].read /\ reads[p].schemaErrors # <<>>) =>
                  /\ workflows[p].state = "rejected"
                  /\ workflows[p].error.code = "WORKFLOW_SCHEMA"
                  /\ workflows[p].error.workflow = p
                  /\ workflows[p].error.schemaErrors = reads[p].schemaErrors
           /\ workflows[p].state = "fulfilled" =>
                  (reads[p].read /\ reads[p].schemaErrors = <<>>)
    /\ \A j \in 1..Len(jobs) :
           /\ jobs[j].schemaErrors # <<>> =>
                  /\ jobs[j].pc = "failed"
                  /\ ~jobs[j].loaded
                  /\ jobs[j].error.code = "ACTION_SCHEMA"
                  /\ jobs[j].error.action =
                         run.workflow.jobs[j].steps[jobs[j].step].uses.specifier
                  /\ jobs[j].error.schemaErrors = jobs[j].schemaErrors
           /\ ( /\ run.workflow.jobs[j].uses \in WorkflowPaths
                /\ workflows[run.workflow.jobs[j].uses].state = "rejected" ) =>
                  /\ jobs[j].pc = "failed"
                  /\ jobs[j].error = workflows[run.workflow.jobs[j].uses].error
    /\ workflows[TopPath].state = "rejected" =>
           /\ run.pc = "rejected"
           /\ run.error = workflows[TopPath].error
           /\ jobs = <<>>
           /\ \A t \in Targets \ {TopPath} : fetchCount[t] = 0
    /\ jobs # <<>> => workflows[TopPath].state = "fulfilled"

\* the analyzed workflow read with schema errors and analyzeWorkflow has
\* failed with all of them
C10_Witness ==
    /\ reads[TopPath].read
    /\ reads[TopPath].schemaErrors = SomeSchemaErrors
    /\ run.pc = "rejected"
    /\ run.error.code = "WORKFLOW_SCHEMA"
    /\ run.error.schemaErrors = SomeSchemaErrors
    /\ fetchCount[TopPath] = 1

\* C11: with the tasks of the jobs running in parallel, analyzeWorkflow has
\* completed successfully exactly when every task has completed and none
\* has raised; as soon as a task has raised, analyzeWorkflow has failed, and
\* it keeps the error of the task that raised first, whatever the other
\* tasks do afterwards (they go on, and what they end with is dropped); an
\* error of a check across documents is a WORKFLOW_RUNTIME error for the
\* path of the analyzed workflow.
C11_FirstRaisedErrorSurfaces ==
    /\ run.pc = "resolved" <=>
           /\ workflows[TopPath].state = "fulfilled"
           /\ raised = <<>>
           /\ \A j \in 1..Len(jobs) : jobs[j].pc = "done"
    /\ raised # <<>> =>
           /\ run.pc = "rejected"
           /\ jobs[raised[1]].pc = "failed"
           /\ run.error = jobs[raised[1]].error
    /\ (run.pc = "rejected" /\ workflows[TopPath].state = "fulfilled") => raised # <<>>
    /\ \A j \in 1..Len(jobs) :
           jobs[j].pc = "failed" <=> \E k \in 1..Len(raised) : raised[k] = j
    /\ \A j \in 1..Len(jobs) :
           (jobs[j].pc = "failed" /\ jobs[j].error.code = "WORKFLOW_RUNTIME") =>
               jobs[j].error.workflow = TopPath

\* the second job raised first, with a runtime error, and the first job
\* raised after it with another error: analyzeWorkflow has failed with the
\* error of the second job
C11_Witness ==
    /\ Len(jobs) = 2
    /\ raised = << 2, 1 >>
    /\ jobs[2].error.code = "WORKFLOW_RUNTIME"
    /\ jobs[1].error.code = "ACTION_NOT_FOUND"
    /\ run.pc = "rejected"
    /\ run.error = jobs[2].error
    /\ run.error # jobs[1].error

(***************************************************************************)
(* readWorkflowModel (readWorkflow.ts)                                     *)
(*                                                                         *)
(* The reader is a pure function of the value js-yaml parses from the text *)
(* of a workflow.  A parsed value is a record of one shape: its JavaScript *)
(* type, the text of a scalar, and the keys and items of a map or array in *)
(* the order of the document.  A string is the sequence of its characters  *)
(* where the code looks into it (job ids, uses values); the keys, paths    *)
(* and messages the code writes as literals are one token each, and a      *)
(* template literal is the concatenation of its parts.  A backquote of the *)
(* source is written ' here.                                               *)
(***************************************************************************)
Yaml(type, text, keys, items) ==
    [ type |-> type, text |-> text, keys |-> keys, items |-> items ]

\* what reading a property yields when the map has no such key
YUndefined == Yaml("undefined", <<>>, <<>>, <<>>)

isString(v) == v.type = "string"
isStringLike(v) == v.type \in {"string", "boolean", "number"}
isMap(v) == v.type = "map"
isArrayOfMaps(v) == v.type = "array" /\ \A i \in 1..Len(v.items) : isMap(v.items[i])
isArrayOfStrings(v) == v.type = "array" /\ \A i \in 1..Len(v.items) : isString(v.items[i])
isArrayOfStringLikes(v) == v.type = "array" /\ \A i \in 1..Len(v.items) : isStringLike(v.items[i])
isMapOfStringLikes(v) == isMap(v) /\ \A i \in 1..Len(v.items) : isStringLike(v.items[i])

\* 'k' in m, and m.k
In(k, m) == \E i \in 1..Len(m.keys) : m.keys[i] = k
Get(m, k) ==
    IF In(k, m) THEN m.items[CHOOSE i \in 1..Len(m.keys) : m.keys[i] = k] ELSE YUndefined

\* String.prototype.split(separator) with a separator of one character
RECURSIVE split(_, _)
split(s, separator) ==
    IF \E i \in 1..Len(s) : s[i] = separator
    THEN LET i == CHOOSE k \in 1..Len(s) :
                      s[k] = separator /\ \A m \in 1..(k - 1) : s[m] # separator
         IN  << SubSeq(s, 1, i - 1) >> \o split(SubSeq(s, i + 1, Len(s)), separator)
    ELSE << s >>

jobAndStepIdRegexAnyLength(id) ==
    LET letters == { "a", "b", "c", "d", "e", "f", "g", "h", "i", "j", "k", "l", "m",
                     "n", "o", "p", "q", "r", "s", "t", "u", "v", "w", "x", "y", "z" }
        digits == { "0", "1", "2", "3", "4", "5", "6", "7", "8", "9" }
    IN  /\ Len(id) >= 1
        /\ id[1] \in letters \cup {"_"}
        /\ \A i \in 2..Len(id) : id[i] \in letters \cup digits \cup {"_", "-"}

\* /^[_a-z]{1}[_\-a-z\d]+$/.test(id)
jobAndStepIdRegex(id) ==
    LET letters == { "a", "b", "c", "d", "e", "f", "g", "h", "i", "j", "k", "l", "m",
                     "n", "o", "p", "q", "r", "s", "t", "u", "v", "w", "x", "y", "z" }
        digits == { "0", "1", "2", "3", "4", "5", "6", "7", "8", "9" }
    IN  /\ Len(id) >= 2
        /\ id[1] \in letters \cup {"_"}
        /\ \A i \in 2..Len(id) : id[i] \in letters \cup digits \cup {"_", "-"}

\* a schema error {message, object, path}
GHWorkflowSchemaError(message, object, path) ==
    [ message |-> message, object |-> object, path |-> path ]

\* what a function that may throw hands back: the value it returns and the
\* schema errors it pushed, or the class of what it threw (SchemaError with
\* its schema error, or a plain Error with its message)
Returns(value, pushed) ==
    [ thrown |-> "none", error |-> GHWorkflowSchemaError(<<>>, "", <<>>),
      value |-> value, pushed |-> pushed ]
ThrowsNothing(class, error, empty, pushed) ==
    [ thrown |-> "none", error |-> GHWorkflowSchemaError(<<>>, "", <<>>),
      value |-> empty, pushed |-> pushed ]
Throws(class, error, empty, pushed) ==
    [ thrown |-> class, error |-> error, value |-> empty, pushed |-> pushed ]

\* a property the model does not have
NotSet == << "undefined" >>

\* the specifier of an action or of a called workflow
Specifier(kind, uri, path, owner, repo, ref, filename, subdirectory, specifier) ==
    [ __KIND |-> kind, uri |-> uri, path |-> path, owner |-> owner, repo |-> repo,
      ref |-> ref, filename |-> filename, subdirectory |-> subdirectory,
      specifier |-> specifier ]
NoSpecifier == Specifier("", NotSet, NotSet, NotSet, NotSet, NotSet, NotSet, NotSet, NotSet)

parseJobUsesWorkflowValue(v, jobId) ==
    LET path == << "jobs." >> \o jobId \o << ".uses" >>
        startsWith(s, prefix) == Len(s) >= Len(prefix) /\ SubSeq(s, 1, Len(prefix)) = prefix
        splitAll == split(v.text, "@")
        \* v.split('@', 2)
        splitOnRef == SubSeq(splitAll, 1, Min({2, Len(splitAll)}))
        splitPaths == split(splitOnRef[1], "/")
        \* /ya?ml$/.test(s)
        yamlRegex(s) ==
            \/ Len(s) >= 3 /\ SubSeq(s, Len(s) - 2, Len(s)) = <<"y", "m", "l">>
            \/ Len(s) >= 4 /\ SubSeq(s, Len(s) - 3, Len(s)) = <<"y", "a", "m", "l">>
    IN  IF ~isString(v)
        THEN Throws("SchemaError",
                    GHWorkflowSchemaError(<< "'uses' must be a string" >>, "job", path),
                    NoSpecifier, <<>>)
        ELSE IF startsWith(v.text, <<".", "/">>) \/ startsWith(v.text, <<".", ".", "/">>)
        THEN Returns(Specifier("filesystem", NotSet, v.text, NotSet, NotSet, NotSet,
                               NotSet, NotSet, NotSet), <<>>)
        ELSE IF \/ Len(splitPaths) # 5
                \/ splitPaths[3] # <<".", "g", "i", "t", "h", "u", "b">>
                \/ splitPaths[4] # <<"w", "o", "r", "k", "f", "l", "o", "w", "s">>
                \/ ~yamlRegex(splitPaths[5])
        THEN Throws("SchemaError",
                    GHWorkflowSchemaError(
                        << "Must be a resolvable GitHub workflow YAML file in this repository with './.github/workflows' or an external repository with 'owner/name/.github/workflows' as a prefix" >>,
                        "job", path),
                    NoSpecifier, <<>>)
        ELSE IF Len(splitOnRef) = 1
        THEN Throws("SchemaError",
                    GHWorkflowSchemaError(
                        << "Must specify GitHub workflow ref in format '" >>
                            \o splitOnRef[1] \o << "@{ref}'" >>,
                        "job", path),
                    NoSpecifier, <<>>)
        ELSE Returns(Specifier("repository", NotSet, NotSet, splitPaths[1], splitPaths[2],
                               splitOnRef[2], splitPaths[5], NotSet, v.text), <<>>)

parseStepUsesActionValue(v, jobId, stepIndex) ==
    LET path == << "jobs." >> \o jobId \o << ".steps[", ToString(stepIndex), "].uses" >>
        startsWith(s, prefix) == Len(s) >= Len(prefix) /\ SubSeq(s, 1, Len(prefix)) = prefix
        \* splitPaths.splice(2).join('/')
        subdirectory(parts) ==
            Flatten([ i \in 1..(Len(parts) - 2) |->
                        IF i = 1 THEN parts[i + 2] ELSE << "/" >> \o parts[i + 2] ])
        splitAll == split(v.text, "@")
        splitOnRef == SubSeq(splitAll, 1, Min({2, Len(splitAll)}))
        splitPaths == split(splitOnRef[1], "/")
    IN  IF ~isString(v)
        THEN Throws("SchemaError",
                    GHWorkflowSchemaError(<< "'uses' must be a string" >>, "step", path),
                    NoSpecifier, <<>>)
        ELSE IF startsWith(v.text, <<"d", "o", "c", "k", "e", "r", ":", "/", "/">>)
        THEN Returns(Specifier("docker", v.text, NotSet, NotSet, NotSet, NotSet,
                               NotSet, NotSet, NotSet), <<>>)
        ELSE IF startsWith(v.text, <<".", "/">>) \/ startsWith(v.text, <<".", ".", "/">>)
        THEN Returns(Specifier("filesystem", NotSet, v.text, NotSet, NotSet, NotSet,
                               NotSet, NotSet, NotSet), <<>>)
        ELSE IF Len(splitPaths) < 2
        THEN Throws("SchemaError",
                    GHWorkflowSchemaError(<< "Must be a resolvable GitHub Action" >>,
                                          "step", path),
                    NoSpecifier, <<>>)
        ELSE IF Len(splitOnRef) = 1
        THEN Throws("SchemaError",
                    GHWorkflowSchemaError(
                        << "Must specify GitHub Action ref in format '" >>
                            \o splitOnRef[1] \o << "@{ref}'" >>,
                        "step", path),
                    NoSpecifier, <<>>)
        ELSE Returns(Specifier("repository", NotSet, NotSet, splitPaths[1], splitPaths[2],
                               splitOnRef[2], NotSet,
                               IF Len(splitPaths) > 2
                               THEN subdirectory(splitPaths)
                               ELSE NotSet,
                               v.text), <<>>)

\* the errors pushed for the keys of m that are not among supported, in the
\* order of the keys
UnsupportedKeys(m, supported, object, messageStart, pathStart) ==
    Flatten([ k \in 1..Len(m.keys) |->
                IF m.keys[k] \in supported THEN <<>>
                ELSE << GHWorkflowSchemaError(
                            messageStart \o << " has an unsupported field '" >>
                                \o m.keys[k] \o << "'" >>,
                            object, pathStart \o m.keys[k]) >> ])

checkUnsupportedJobKeysSilent(jobYaml, jobId) == <<>>

checkUnsupportedJobKeys(jobYaml, jobId) ==
    UnsupportedKeys(jobYaml,
        { << "concurrency" >>, << "container" >>, << "continue-on-error" >>, << "env" >>,
          << "environment" >>, << "defaults" >>, << "if" >>, << "name" >>, << "needs" >>,
          << "outputs" >>, << "permissions" >>, << "runs-on" >>, << "secrets" >>,
          << "services" >>, << "strategy" >>, << "steps" >>, << "timeout-minutes" >>,
          << "uses" >>, << "with" >> },
        "job", << "Job '" >> \o jobId \o << "'" >>, << "jobs." >> \o jobId \o << "." >>)

\* a step with nothing set
NoStep ==
    [ __KIND |-> "", id |-> NotSet, if |-> NotSet, name |-> NotSet, run |-> NotSet,
      uses |-> NoSpecifier, env |-> YUndefined, with |-> YUndefined ]

\* one pass of the loop of collectSteps: the step read from stepYaml, or what
\* the pass throws; stepIndex counts from 0
collectStep(jobId, stepYaml, stepIndex) ==
    LET at == << "jobs." >> \o jobId \o << ".steps[", ToString(stepIndex), "]" >>
        throw(message, path) ==
            Throws("SchemaError", GHWorkflowSchemaError(message, "step", path), NoStep, <<>>)
        id == Get(stepYaml, << "id" >>)
        if == Get(stepYaml, << "if" >>)
        name == Get(stepYaml, << "name" >>)
        runYaml == Get(stepYaml, << "run" >>)
        env == Get(stepYaml, << "env" >>)
        with == Get(stepYaml, << "with" >>)
        uses == parseStepUsesActionValue(Get(stepYaml, << "uses" >>), jobId, stepIndex)
        common(kind) ==
            [ NoStep EXCEPT
                !.__KIND = kind,
                !.id = IF In(<< "id" >>, stepYaml) THEN id.text ELSE NotSet,
                !.if = IF In(<< "if" >>, stepYaml) THEN if.text ELSE NotSet,
                !.name = IF In(<< "name" >>, stepYaml) THEN name.text ELSE NotSet ]
        \* convertMapOfStringLikes
        strings(c) ==
            Yaml("map", <<>>, c.keys,
                 [ i \in 1..Len(c.items) |-> Yaml("string", c.items[i].text, <<>>, <<>>) ])
    IN  IF In(<< "id" >>, stepYaml) /\ ~(isString(id) /\ jobAndStepIdRegex(id.text))
        THEN throw(<< "Step id " >> \o id.text
                       \o << " must be a string starting with a letter or _ and only contain alphanumeric _ and -" >>,
                   at \o << ".id" >>)
        ELSE IF In(<< "if" >>, stepYaml) /\ ~isStringLike(if)
        THEN throw(<< "'if' must be a string" >>, at \o << ".if" >>)
        ELSE IF In(<< "name" >>, stepYaml) /\ ~isStringLike(name)
        THEN throw(<< "'name' must be a string" >>, at \o << ".name" >>)
        ELSE IF In(<< "run" >>, stepYaml) /\ In(<< "uses" >>, stepYaml)
        THEN Throws("Error",
                    GHWorkflowSchemaError(<< "step cannot have run and uses" >>, "", <<>>),
                    NoStep, <<>>)
        ELSE IF In(<< "run" >>, stepYaml)
        THEN IF ~isString(runYaml)
             THEN throw(<< "'run' must be a string" >>, at \o << ".run" >>)
             ELSE IF In(<< "env" >>, stepYaml) /\ ~isMapOfStringLikes(env)
             THEN throw(<< "'env' must be a map of strings" >>, at \o << ".env" >>)
             ELSE Returns([ common("run") EXCEPT
                              !.run = runYaml.text,
                              !.env = IF In(<< "env" >>, stepYaml)
                                      THEN strings(env) ELSE YUndefined ],
                          <<>>)
        ELSE IF In(<< "uses" >>, stepYaml)
        THEN IF uses.thrown # "none"
             THEN Throws(uses.thrown, uses.error, NoStep, <<>>)
             ELSE IF In(<< "with" >>, stepYaml) /\ ~isMapOfStringLikes(with)
             THEN throw(<< "'with' must be a map of booleans, numbers and strings" >>,
                        at \o << ".with" >>)
             \* UNSUPPORTED_PROPS.STEP_WITH_USES is ['env']
             ELSE IF In(<< "env" >>, stepYaml)
             THEN throw(<< "'env' cannot be used with 'uses'" >>, at)
             ELSE Returns([ common("uses") EXCEPT
                              !.uses = uses.value,
                              !.with = IF In(<< "with" >>, stepYaml) THEN with ELSE YUndefined ],
                          <<>>)
        ELSE Throws("Error",
                    GHWorkflowSchemaError(<< "step must have run or uses" >>, "", <<>>),
                    NoStep, <<>>)

\* collectSteps from the k-th step on, with the steps and schema errors collected
\* so far (all of it from k = 1 with none): the first pass that throws ends
\* the loop, what was pushed stays pushed
RECURSIVE collectSteps(_, _, _, _, _)
collectSteps(jobId, stepsYaml, k, steps, pushed) ==
    IF k > Len(stepsYaml.items) THEN Returns(steps, pushed)
    ELSE LET stepYaml == stepsYaml.items[k]
             checkUnsupportedJobStepKeys ==
                 UnsupportedKeys(stepYaml,
                     { << "env" >>, << "continue-on-error" >>, << "id" >>, << "if" >>,
                       << "name" >>, << "run" >>, << "shell" >>, << "timeout-minutes" >>,
                       << "uses" >>, << "with" >>, << "working-directory" >> },
                     "step", << "Step of job '" >> \o jobId \o << "'" >>,
                     << "jobs." >> \o jobId \o << ".steps[", ToString(k - 1), "]." >>)
             step == collectStep(jobId, stepYaml, k - 1)
         IN  IF step.thrown # "none"
             THEN Throws(step.thrown, step.error, <<>>, pushed \o checkUnsupportedJobStepKeys)
             ELSE collectSteps(jobId, stepsYaml, k + 1, Append(steps, step.value),
                               pushed \o checkUnsupportedJobStepKeys)

\* checkUnsupportedDefaultsKeys(defaultsYaml, schemaErrors, jobId?): jobId is
\* NotSet for the defaults of the workflow
checkUnsupportedDefaultsKeys(defaultsYaml, jobId) ==
    LET runYaml == Get(defaultsYaml, << "run" >>)
        object == IF jobId # NotSet THEN "job" ELSE "workflow"
        start == IF jobId # NotSet THEN << "Job '" >> \o jobId \o << "' defaults" >>
                 ELSE << "Workflow defaults" >>
        path == IF jobId # NotSet THEN << "jobs." >> \o jobId \o << ".defaults" >>
                ELSE << "defaults" >>
        unsupported(field) ==
            GHWorkflowSchemaError(start \o << " has an unsupported field '" >> \o field \o << "'" >>,
                                  object, path \o << "." >> \o field)
    IN  Flatten([ k \in 1..Len(defaultsYaml.keys) |->
            IF defaultsYaml.keys[k] # << "run" >>
            THEN << unsupported(defaultsYaml.keys[k]) >>
            ELSE IF ~isMap(runYaml)
            THEN << GHWorkflowSchemaError(
                        << "Must be an object of ", object, " run defaults config" >>,
                        object, path) >>
            ELSE Flatten([ r \in 1..Len(runYaml.keys) |->
                     IF runYaml.keys[r] \in { << "shell" >>, << "working-directory" >> } THEN <<>>
                     ELSE << unsupported(<< "run." >> \o runYaml.keys[r]) >> ]) ])

\* the schema errors collectJobs pushes for the container, defaults, services
\* and strategy of a job before it reads the job
checkJobConfigs(jobYaml, jobId) ==
    LET at == << "jobs." >> \o jobId
        of == << " of job '" >> \o jobId \o << "'" >>
        container == Get(jobYaml, << "container" >>)
        defaults == Get(jobYaml, << "defaults" >>)
        services == Get(jobYaml, << "services" >>)
        strategy == Get(jobYaml, << "strategy" >>)
        \* used for job container and services
        checkUnsupportedJobContainerKeys(containerYaml, messageStart, pathStart) ==
            UnsupportedKeys(containerYaml,
                { << "credentials" >>, << "env" >>, << "image" >>, << "options" >>,
                  << "ports" >>, << "volumes" >> },
                "job", messageStart, pathStart)
        mustBe(what, path) ==
            << GHWorkflowSchemaError(<< "Must be an object of job " >> \o what, "job", path) >>
    IN  (IF ~In(<< "container" >>, jobYaml) THEN <<>>
         ELSE IF isMap(container)
         THEN checkUnsupportedJobContainerKeys(container, << "Container" >> \o of,
                                               at \o << ".container." >>)
         ELSE mustBe(<< "container config" >>, at \o << ".container" >>))
        \o
        (IF ~In(<< "defaults" >>, jobYaml) THEN <<>>
         ELSE IF isMap(defaults) THEN checkUnsupportedDefaultsKeys(defaults, jobId)
         ELSE mustBe(<< "defaults config" >>, at \o << ".defaults" >>))
        \o
        (IF ~In(<< "services" >>, jobYaml) THEN <<>>
         ELSE IF ~isMap(services)
         THEN mustBe(<< "services configs" >>, at \o << ".services" >>)
         ELSE Flatten([ k \in 1..Len(services.keys) |->
                  IF isMap(services.items[k])
                  THEN checkUnsupportedJobContainerKeys(services.items[k],
                           << "Service '" >> \o services.keys[k] \o << "'" >> \o of,
                           at \o << ".services." >> \o services.keys[k] \o << "." >>)
                  ELSE mustBe(<< "services configs" >>,
                              at \o << ".services." >> \o services.keys[k]) ]))
        \o
        (IF ~In(<< "strategy" >>, jobYaml) THEN <<>>
         ELSE IF isMap(strategy)
         THEN UnsupportedKeys(strategy,
                  { << "fail-fast" >>, << "matrix" >>, << "max-parallel" >> }, "job",
                  << "Strategy" >> \o of, at \o << ".strategy." >>)
         ELSE mustBe(<< "strategy config" >>, at \o << ".strategy" >>))

\* a job with nothing set
NoJob ==
    [ __KIND |-> "", steps |-> <<>>, env |-> YUndefined, runsOn |-> YUndefined,
      uses |-> NoSpecifier, with |-> YUndefined, if |-> NotSet, name |-> NotSet,
      needs |-> YUndefined ]

\* the body of the try block of collectJobs for one entry of jobs, after the
\* key and config checks: the job read, or what it throws
collectJob(jobId, jobYaml) ==
    LET at == << "jobs." >> \o jobId
        throw(message, path, pushed) ==
            Throws("SchemaError", GHWorkflowSchemaError(message, "job", path), NoJob, pushed)
        steps == collectSteps(jobId, Get(jobYaml, << "steps" >>), 1, <<>>, <<>>)
        \* convertMapOfStringLikes
        strings(c) ==
            Yaml("map", <<>>, c.keys,
                 [ i \in 1..Len(c.items) |-> Yaml("string", c.items[i].text, <<>>, <<>>) ])
        env == Get(jobYaml, << "env" >>)
        runsOnYaml == Get(jobYaml, << "runs-on" >>)
        group == Get(runsOnYaml, << "group" >>)
        labels == Get(runsOnYaml, << "labels" >>)
        groupAndLabels ==
            Len(runsOnYaml.keys) = 2 /\ In(<< "group" >>, runsOnYaml) /\ In(<< "labels" >>, runsOnYaml)
        \* what the runs-on branch throws, "" when it throws nothing
        runsOnThrows ==
            IF ~In(<< "runs-on" >>, jobYaml) \/ ~isMap(runsOnYaml) THEN ""
            ELSE IF ~groupAndLabels THEN "map"
            ELSE IF ~isString(group) THEN "group"
            ELSE IF ~(isString(labels) \/ isArrayOfStrings(labels)) THEN "labels"
            ELSE ""
        \* stepsJob.runsOn after the branch, undefined when it was not set
        runsOn ==
            IF ~In(<< "runs-on" >>, jobYaml) THEN YUndefined
            ELSE IF isString(runsOnYaml) THEN runsOnYaml
            ELSE IF isArrayOfStrings(runsOnYaml) /\ Len(runsOnYaml.items) > 0 THEN runsOnYaml
            ELSE IF isMap(runsOnYaml)
            THEN Yaml("map", <<>>, << << "group" >>, << "labels" >> >>,
                      << group,
                         IF isString(labels) THEN Yaml("array", <<>>, <<>>, << labels >>)
                         ELSE labels >>)
            ELSE YUndefined
        uses == parseJobUsesWorkflowValue(Get(jobYaml, << "uses" >>), jobId)
        with == Get(jobYaml, << "with" >>)
        if == Get(jobYaml, << "if" >>)
        name == Get(jobYaml, << "name" >>)
        needs == Get(jobYaml, << "needs" >>)
        \* the props common to both kinds, read after the kind
        common(job, pushed) ==
            IF In(<< "if" >>, jobYaml) /\ ~isStringLike(if)
            THEN throw(<< "'if' must be a string" >>, at \o << ".if" >>, pushed)
            ELSE IF In(<< "name" >>, jobYaml) /\ ~isStringLike(name)
            THEN throw(<< "'name' must be a string" >>, at \o << ".name" >>, pushed)
            ELSE IF In(<< "needs" >>, jobYaml) /\ ~(isStringLike(needs) \/ isArrayOfStringLikes(needs))
            THEN throw(<< "'needs' must be a string or array of strings" >>,
                       at \o << ".needs" >>, pushed)
            ELSE Returns([ job EXCEPT
                             !.if = IF In(<< "if" >>, jobYaml) THEN if.text ELSE NotSet,
                             !.name = IF In(<< "name" >>, jobYaml) THEN name.text ELSE NotSet,
                             !.needs = IF ~In(<< "needs" >>, jobYaml) THEN YUndefined
                                       ELSE IF isStringLike(needs)
                                       THEN Yaml("array", <<>>, <<>>,
                                                 << Yaml("string", needs.text, <<>>, <<>>) >>)
                                       ELSE Yaml("array", <<>>, <<>>,
                                                 [ i \in 1..Len(needs.items) |->
                                                     Yaml("string", needs.items[i].text, <<>>, <<>>) ]) ],
                         pushed)
    IN  IF In(<< "steps" >>, jobYaml) /\ In(<< "uses" >>, jobYaml)
        THEN throw(<< "Cannot define both 'steps' and 'uses' for a job" >>, at, <<>>)
        ELSE IF In(<< "steps" >>, jobYaml)
        THEN IF ~isArrayOfMaps(Get(jobYaml, << "steps" >>))
             THEN throw(<< "Must be an array of step configurations" >>, at \o << ".steps" >>, <<>>)
             ELSE IF steps.thrown # "none"
             THEN Throws(steps.thrown, steps.error, NoJob, steps.pushed)
             ELSE IF In(<< "env" >>, jobYaml) /\ ~isMapOfStringLikes(env)
             THEN throw(<< "'env' must be a map of strings" >>, at \o << ".env" >>, steps.pushed)
             ELSE IF runsOnThrows = "map"
             THEN throw(<< "'runs-on' must only have 'group' and 'labels' for querying runners" >>,
                        at \o << ".runs-on" >>, steps.pushed)
             ELSE IF runsOnThrows = "group"
             THEN throw(<< "Must be a string" >>, at \o << ".runs-on.group" >>, steps.pushed)
             ELSE IF runsOnThrows = "labels"
             THEN throw(<< "Must be a string or array of strings" >>,
                        at \o << ".runs-on.labels" >>, steps.pushed)
             \* !stepsJob.runsOn: not set, or the empty string
             ELSE IF runsOn = YUndefined \/ (isString(runsOn) /\ runsOn.text = <<>>)
             THEN throw(<< "Must be a runner image name, array of runner labels or map defining 'group' and 'labels'" >>,
                        at \o << ".runs-on" >>, steps.pushed)
             \* if (steps) stepsJob.steps = steps: an array is never falsy
             ELSE common([ NoJob EXCEPT
                             !.__KIND = "steps",
                             !.steps = steps.value,
                             !.env = IF In(<< "env" >>, jobYaml)
                                     THEN strings(env) ELSE YUndefined,
                             !.runsOn = runsOn ],
                         steps.pushed)
        ELSE IF In(<< "uses" >>, jobYaml)
        THEN IF uses.thrown # "none"
             THEN Throws(uses.thrown, uses.error, NoJob, <<>>)
             ELSE IF In(<< "with" >>, jobYaml) /\ ~isMapOfStringLikes(with)
             THEN throw(<< "'with' must be a map of booleans, numbers and strings" >>,
                        at \o << ".with" >>, <<>>)
             \* UNSUPPORTED_PROPS.JOB_WITH_USES is ['env']
             ELSE IF In(<< "env" >>, jobYaml)
             THEN throw(<< "'env' cannot be used with 'uses'" >>, at, <<>>)
             ELSE common([ NoJob EXCEPT
                             !.__KIND = "uses",
                             !.uses = uses.value,
                             !.with = IF In(<< "with" >>, jobYaml) THEN with ELSE YUndefined ],
                         <<>>)
        ELSE throw(<< "Must define 'steps' or 'uses' for a job" >>, at, <<>>)

\* the loop of collectJobs from the k-th entry of jobs on: a SchemaError is
\* caught and pushed and the entry skipped, anything else is thrown again
RECURSIVE collectJobsFrom(_, _, _, _)
collectJobsFrom(jobsYaml, k, jobs_, pushed) ==
    IF k > Len(jobsYaml.keys) THEN Returns(jobs_, pushed)
    ELSE LET jobId == jobsYaml.keys[k]
             jobYaml == jobsYaml.items[k]
             at == << "jobs." >> \o jobId
             \* the end of the try block with what it pushed, and the catch
             caught(job, pushedInTry) ==
                 IF job.thrown = "SchemaError"
                 THEN collectJobsFrom(jobsYaml, k + 1, jobs_, Append(pushedInTry, job.error))
                 ELSE IF job.thrown # "none"
                 THEN Throws(job.thrown, job.error, <<>>, pushedInTry)
                 ELSE collectJobsFrom(jobsYaml, k + 1,
                          Append(jobs_, [ id |-> jobId, job |-> job.value ]), pushedInTry)
             tried(job, checked) == caught(job, pushed \o checked \o job.pushed)
         IN  IF ~jobAndStepIdRegex(jobId)
             THEN collectJobsFrom(jobsYaml, k + 1, jobs_,
                      Append(pushed, GHWorkflowSchemaError(
                          << "Job id " >> \o jobId
                              \o << " must start with a letter or _ and only contain alphanumeric _ and -" >>,
                          "job", at)))
             ELSE IF ~isMap(jobYaml)
             THEN collectJobsFrom(jobsYaml, k + 1, jobs_,
                      Append(pushed, GHWorkflowSchemaError(
                          << "Cannot have a ", IF jobYaml.type \in {"null", "array"} THEN "object" ELSE jobYaml.type,
                             " value for a job" >>,
                          "job", at)))
             ELSE tried(collectJob(jobId, jobYaml),
                        checkUnsupportedJobKeys(jobYaml, jobId) \o checkJobConfigs(jobYaml, jobId))

collectJobs(wfYaml) ==
    LET jobsYaml == Get(wfYaml, << "jobs" >>)
    IN  IF In(<< "jobs" >>, wfYaml) /\ ~isMap(jobsYaml)
        THEN Returns(<<>>, << GHWorkflowSchemaError(<< "Type of jobs is incorrect at 'jobs'" >>,
                                                     "workflow", << "jobs" >>) >>)
        ELSE IF ~In(<< "jobs" >>, wfYaml) \/ Len(jobsYaml.keys) = 0
        THEN Returns(<<>>, << GHWorkflowSchemaError(<< "No jobs defined in 'jobs'" >>,
                                                     "workflow", << "jobs" >>) >>)
        ELSE collectJobsFrom(jobsYaml, 1, <<>>, <<>>)

GHWorkflowEventsAndPull ==
    { << "pull_request" >>, << "push" >>, << "workflow_call" >>, << "workflow_dispatch" >>,
      << "pull" >> }

GHWorkflowEvents ==
    { << "pull_request" >>, << "push" >>, << "workflow_call" >>, << "workflow_dispatch" >> }

INPUT_TYPES_OfDispatch(event) ==
    { << "boolean" >>, << "choice" >>, << "environment" >>, << "number" >>, << "string" >> }

INPUT_TYPES(event) ==
    IF event = << "workflow_call" >>
    THEN { << "boolean" >>, << "number" >>, << "string" >> }
    ELSE { << "boolean" >>, << "choice" >>, << "environment" >>, << "number" >>, << "string" >> }

\* an input with nothing set
NoInput ==
    [ type |-> NotSet, description |-> NotSet, required |-> NotSet, default |-> YUndefined,
      options |-> <<>> ]

\* isValidInput returns true or throws: the SchemaError it throws, or nothing
isValidInput(inputYaml, inputId, event) ==
    LET at == << "on." >> \o event \o << ".inputs." >> \o inputId
        type == Get(inputYaml, << "type" >>)
        throw(message, path) ==
            Throws("SchemaError", GHWorkflowSchemaError(message, "input", path), TRUE, <<>>)
        invalidProps ==
            SelectSeq(inputYaml.keys,
                      LAMBDA prop :
                          ~ \/ prop \in { << "default" >>, << "description" >>,
                                          << "required" >>, << "type" >> }
                            \/ (type.text = << "choice" >> /\ prop = << "options" >>))
    IN  IF ~isMap(inputYaml)
        THEN throw(<< "Must be a map of input configuration" >>, at)
        ELSE IF ~In(<< "type" >>, inputYaml)
        THEN throw(<< "'undefined' must explicitly have an input type" >>, at \o << ".type" >>)
        ELSE IF ~isString(type)
        THEN throw(<< "Must be a string" >>, at \o << ".type" >>)
        ELSE IF type.text \notin INPUT_TYPES(event)
        THEN throw(<< "'" >> \o type.text \o << "' is not a valid " >> \o event
                       \o << " input type" >>,
                   at \o << ".type" >>)
        ELSE IF invalidProps # <<>>
        \* several fields are listed sorted; here in the order of the document
        THEN throw(IF Len(invalidProps) = 1
                   THEN << "'" >> \o inputId \o << "' cannot have field '" >>
                            \o invalidProps[1] \o << "'" >>
                   ELSE << "'" >> \o inputId \o << "' cannot have fields: '" >>
                            \o Flatten([ i \in 1..Len(invalidProps) |->
                                            IF i = 1 THEN invalidProps[i]
                                            ELSE << "', '" >> \o invalidProps[i] ])
                            \o << "'" >>,
                   at)
        ELSE Returns(TRUE, <<>>)

\* parseInputProps sets description and required on the input and pushes an
\* error for each that has the wrong type
parseInputProps(input, inputYaml, event, inputId) ==
    LET at == << "on." >> \o event \o << ".inputs." >> \o inputId
        description == Get(inputYaml, << "description" >>)
        required == Get(inputYaml, << "required" >>)
    IN  Returns([ input EXCEPT
                    !.description = IF In(<< "description" >>, inputYaml) /\ isStringLike(description)
                                    THEN description.text ELSE NotSet,
                    !.required = IF In(<< "required" >>, inputYaml) /\ required.type = "boolean"
                                 THEN required.text ELSE NotSet ],
                (IF In(<< "description" >>, inputYaml) /\ ~isStringLike(description)
                 THEN << GHWorkflowSchemaError(<< "Must be a string" >>, "input",
                                               at \o << ".description" >>) >>
                 ELSE <<>>)
                \o
                (IF In(<< "required" >>, inputYaml) /\ required.type # "boolean"
                 THEN << GHWorkflowSchemaError(<< "Must be a boolean" >>, "input",
                                               at \o << ".required" >>) >>
                 ELSE <<>>))

\* parseBooleanInput, parseNumberInput, parseStringInput and
\* parseEnvironmentInput: the props, then a default of the type of the input
parseScalarInput(inputYaml, event, inputId) ==
    LET type == Get(inputYaml, << "type" >>).text
        default == Get(inputYaml, << "default" >>)
        props == parseInputProps([ NoInput EXCEPT !.type = type ], inputYaml, event, inputId)
        mustBe ==
            IF type \in { << "boolean" >>, << "number" >> } THEN type[1] ELSE "string"
        accepted ==
            IF type = << "boolean" >> THEN default.type = "boolean"
            ELSE IF type = << "number" >> THEN default.type = "number"
            ELSE isStringLike(default)
    IN  IF In(<< "default" >>, inputYaml) /\ ~accepted
        THEN Throws("SchemaError",
                    GHWorkflowSchemaError(<< "Must be a ", mustBe >>, "input",
                        << "on." >> \o event \o << ".inputs." >> \o inputId \o << ".default" >>),
                    NoInput, props.pushed)
        ELSE Returns([ props.value EXCEPT
                         !.default = IF ~In(<< "default" >>, inputYaml) THEN YUndefined
                                     ELSE IF isString(default) \/ type \in { << "boolean" >>, << "number" >> }
                                     THEN default
                                     ELSE Yaml("string", default.text, <<>>, <<>>) ],
                     props.pushed)

parseChoiceInput(inputYaml, inputId) ==
    LET at == << "on.workflow_dispatch.inputs." >> \o inputId
        optionsYaml == Get(inputYaml, << "options" >>)
        default == Get(inputYaml, << "default" >>)
        \* inputYaml.options.map(convertStringLike)
        options == [ i \in 1..Len(optionsYaml.items) |-> optionsYaml.items[i].text ]
        props == parseInputProps([ NoInput EXCEPT !.type = << "choice" >>, !.options = options ],
                                 inputYaml, << "workflow_dispatch" >>, inputId)
        throw(message, path, pushed) ==
            Throws("SchemaError", GHWorkflowSchemaError(message, "input", path), NoInput, pushed)
    IN  IF ~In(<< "options" >>, inputYaml)
        THEN throw(<< "Choice input must have 'options'" >>, at, <<>>)
        ELSE IF ~isArrayOfStringLikes(optionsYaml)
        THEN throw(<< "Must be an array of strings" >>, at \o << ".options" >>, <<>>)
        ELSE IF In(<< "default" >>, inputYaml) /\ ~isStringLike(default)
        THEN throw(<< "Must be a string" >>, at \o << ".default" >>, props.pushed)
        \* !input.options.includes(input.default)
        ELSE IF In(<< "default" >>, inputYaml)
                /\ ~ \E i \in 1..Len(options) : options[i] = default.text
        THEN throw(<< "'" >> \o default.text \o << "' is not an input option" >>,
                   at \o << ".default" >>, props.pushed)
        ELSE Returns([ props.value EXCEPT
                         !.default = IF In(<< "default" >>, inputYaml)
                                     THEN Yaml("string", default.text, <<>>, <<>>)
                                     ELSE YUndefined ],
                     props.pushed)

\* collectEventInputs of a cfg whose inputs is a map: a SchemaError is caught
\* and pushed and the input left out
collectEventInputs(cfgYaml, event) ==
    LET inputsYaml == Get(cfgYaml, << "inputs" >>)
        read(k) ==
            LET valid == isValidInput(inputsYaml.items[k], inputsYaml.keys[k], event)
            IN  IF valid.thrown # "none"
                THEN Throws(valid.thrown, valid.error, NoInput, <<>>)
                ELSE IF Get(inputsYaml.items[k], << "type" >>).text = << "choice" >>
                THEN parseChoiceInput(inputsYaml.items[k], inputsYaml.keys[k])
                ELSE parseScalarInput(inputsYaml.items[k], event, inputsYaml.keys[k])
    IN  Returns(
            Flatten([ k \in 1..Len(inputsYaml.keys) |->
                        IF read(k).thrown = "none"
                        THEN << [ id |-> inputsYaml.keys[k], input |-> read(k).value ] >>
                        ELSE <<>> ]),
            Flatten([ k \in 1..Len(inputsYaml.keys) |->
                        read(k).pushed
                            \o (IF read(k).thrown = "none" THEN <<>> ELSE << read(k).error >>) ]))

\* an event of on is its name and, for workflow_call and workflow_dispatch
\* with an inputs map, its inputs
collectEventCfgs(wfYaml) ==
    LET onYaml == Get(wfYaml, << "on" >>)
        GHWorkflowOnEvent(event, hasInputs, inputs) ==
            [ __KIND |-> event, hasInputs |-> hasInputs, inputs |-> inputs ]
        notAnEvent(event) ==
            GHWorkflowSchemaError(
                << "'" >> \o event \o << "' is not a valid workflow trigger event name" >>,
                "event", << "on." >> \o event)
        \* on[event] = cfg: a later assignment replaces an earlier one in place
        set(on, cfg) ==
            IF \E i \in 1..Len(on) : on[i].__KIND = cfg.__KIND
            THEN [ i \in 1..Len(on) |-> IF on[i].__KIND = cfg.__KIND THEN cfg ELSE on[i] ]
            ELSE Append(on, cfg)
        RECURSIVE setAll(_, _)
        setAll(on, cfgs) == IF cfgs = <<>> THEN on ELSE setAll(set(on, Head(cfgs)), Tail(cfgs))
        \* isValidInputsMap, then collectEventInputs
        parseCfg(event, cfgYaml) ==
            IF event \in { << "pull_request" >>, << "push" >> } \/ ~In(<< "inputs" >>, cfgYaml)
            THEN Returns(GHWorkflowOnEvent(event, FALSE, <<>>), <<>>)
            ELSE IF ~isMap(Get(cfgYaml, << "inputs" >>))
            THEN Returns(GHWorkflowOnEvent(event, FALSE, <<>>),
                         << GHWorkflowSchemaError(<< "Must be a map of workflow inputs" >>, "event",
                                << "on." >> \o event \o << ".inputs" >>) >>)
            ELSE Returns(GHWorkflowOnEvent(event, TRUE, collectEventInputs(cfgYaml, event).value),
                         collectEventInputs(cfgYaml, event).pushed)
    IN  IF ~In(<< "on" >>, wfYaml) THEN Returns(<<>>, <<>>)
        ELSE IF isArrayOfStrings(onYaml)
        THEN Returns(
                 setAll(<<>>, Flatten([ i \in 1..Len(onYaml.items) |->
                     IF onYaml.items[i].text \in GHWorkflowEvents
                     THEN << GHWorkflowOnEvent(onYaml.items[i].text, FALSE, <<>>) >>
                     ELSE <<>> ])),
                 Flatten([ i \in 1..Len(onYaml.items) |->
                     IF onYaml.items[i].text \in GHWorkflowEvents THEN <<>>
                     ELSE << notAnEvent(onYaml.items[i].text) >> ]))
        ELSE IF ~isMap(onYaml)
        THEN Returns(<<>>, << GHWorkflowSchemaError(
                                  << "Must be an array or map of workflow triggering events" >>,
                                  "workflow", << "on" >>) >>)
        ELSE Returns(
                 Flatten([ k \in 1..Len(onYaml.keys) |->
                     IF onYaml.keys[k] \notin GHWorkflowEvents THEN <<>>
                     ELSE IF onYaml.items[k].type = "null"
                     THEN << GHWorkflowOnEvent(onYaml.keys[k], FALSE, <<>>) >>
                     ELSE IF ~isMap(onYaml.items[k]) THEN <<>>
                     ELSE << parseCfg(onYaml.keys[k], onYaml.items[k]).value >> ]),
                 Flatten([ k \in 1..Len(onYaml.keys) |->
                     IF onYaml.keys[k] \notin GHWorkflowEvents THEN << notAnEvent(onYaml.keys[k]) >>
                     ELSE IF onYaml.items[k].type = "null" THEN <<>>
                     ELSE IF ~isMap(onYaml.items[k])
                     THEN << GHWorkflowSchemaError(<< "Must be a map of event configuration" >>,
                                "event", << "on." >> \o onYaml.keys[k]) >>
                     ELSE parseCfg(onYaml.keys[k], onYaml.items[k]).pushed ]))

\* readYaml of a text that parses to wfYaml
readYaml(wfYaml) ==
    LET typeofYaml(v) == IF v.type \in { "null", "array", "map" } THEN "object" ELSE v.type
    IN
    IF ~isMap(wfYaml)
    THEN Throws("TypeError",
                GHWorkflowSchemaError(
                    << "This ", typeofYaml(wfYaml),
                       " YAML is simply the opportunity to begin again, this time with a valid workflow YAML" >>,
                    "", <<>>),
                wfYaml, <<>>)
    ELSE Returns(wfYaml, <<>>)

GHWorkflowReadResult(thrown, error, on, jobs_, schemaErrors) ==
    [ thrown |-> thrown, error |-> error, workflow |-> [ on |-> on, jobs |-> jobs_ ],
      schemaErrors |-> schemaErrors ]

readWorkflowModel(parsed) ==
    LET defaults == Get(parsed, << "defaults" >>)
        checkUnsupportedWorkflowKeys(yaml) ==
            UnsupportedKeys(yaml,
                { << "concurrency" >>, << "defaults" >>, << "env" >>, << "jobs" >>,
                  << "name" >>, << "permissions" >>, << "on" >>, << "run-name" >> },
                "workflow", << "Workflow" >>, <<>>)
        read(wfYaml, on, jobs_) ==
            IF wfYaml.thrown # "none"
            THEN GHWorkflowReadResult(wfYaml.thrown, wfYaml.error, <<>>, <<>>, <<>>)
            ELSE IF on.thrown # "none"
            THEN GHWorkflowReadResult(on.thrown, on.error, <<>>, <<>>, <<>>)
            ELSE IF jobs_.thrown # "none"
            THEN GHWorkflowReadResult(jobs_.thrown, jobs_.error, <<>>, <<>>, <<>>)
            ELSE GHWorkflowReadResult("none", GHWorkflowSchemaError(<<>>, "", <<>>),
                     on.value, jobs_.value,
                     on.pushed \o jobs_.pushed \o checkUnsupportedWorkflowKeys(parsed)
                         \o (IF ~In(<< "defaults" >>, parsed) THEN <<>>
                             ELSE IF isMap(defaults)
                             THEN checkUnsupportedDefaultsKeys(defaults, NotSet)
                             ELSE << GHWorkflowSchemaError(
                                         << "Must be an object of workflow defaults config" >>,
                                         "workflow", << "defaults" >>) >>))
    IN  read(readYaml(parsed), collectEventCfgs(parsed), collectJobs(parsed))

(***************************************************************************)
(* SpecRead: readWorkflowModel applied to one parsed document              *)
(***************************************************************************)
MaxSteps == 2
MaxEntries == 2
MaxEvents == 2

\* the values js-yaml parses from the texts read: maps with on and jobs, with
\* other keys, and roots that are not a map
Documents ==
    LET str(s) == Yaml("string", s, <<>>, <<>>)
        number == Yaml("number", <<"1">>, <<>>, <<>>)
        null == Yaml("null", <<>>, <<>>, <<>>)
        array(items) == Yaml("array", <<>>, <<>>, items)
        map(keys, items) == Yaml("map", <<>>, keys, items)
        env == map(<< << "A" >> >>, << number >>)
        runsLs == array(<< map(<< << "run" >> >>, << str(<<"l", "s">>) >>) >>)
        \* job ids: two that match jobAndStepIdRegex and two that do not (one
        \* character; an upper case letter)
        jobIds == { <<"a", "b">>, <<"_", "1">>, <<"a">>, <<"A", "b">> }
        \* what follows uses: in a job
        jobUses ==
            { str(s) :
                s \in { <<".", "/", "a", ".", "y", "m", "l">>, <<".", ".", "/", "a", ".", "y", "m", "l">>, <<"o", "/", "r", "/", ".", "g", "i", "t", "h", "u", "b", "/", "w", "o", "r", "k", "f", "l", "o", "w", "s", "/", "a", ".", "y", "m", "l", "@", "v">>,
                        <<"o", "/", "r", "/", ".", "g", "i", "t", "h", "u", "b", "/", "w", "o", "r", "k", "f", "l", "o", "w", "s", "/", "a", ".", "y", "a", "m", "l", "@", "v">>, <<"o", "/", "r", "/", ".", "g", "i", "t", "h", "u", "b", "/", "w", "o", "r", "k", "f", "l", "o", "w", "s", "/", "a", "y", "m", "l", "@", "v">>,
                        <<"o", "/", "r", "/", ".", "g", "i", "t", "h", "u", "b", "/", "w", "o", "r", "k", "f", "l", "o", "w", "s", "/", "a", ".", "y", "m", "l">>, <<"o", "/", "r", "/", ".", "g", "i", "t", "h", "u", "b", "/", "w", "o", "r", "k", "f", "l", "o", "w", "s", "/", "a", ".", "y", "m", "l", "@">>,
                        <<"o", "/", "r", "/", ".", "g", "i", "t", "h", "u", "b", "/", "w", "o", "r", "k", "f", "l", "o", "w", "s", "/", "a", ".", "y", "m", "l", "@", "v", "@", "w">>, <<"o", "/", "r", "/", ".", "g", "i", "t", "h", "u", "b", "/", "a", ".", "y", "m", "l", "@", "v">>,
                        <<"o", "/", "r", "/", ".", "g", "i", "t", "h", "u", "b", "/", "w", "o", "r", "k", "f", "l", "o", "w", "s", "/", "a", ".", "t", "x", "t", "@", "v">>, <<".", "a", "/", "r", "/", ".", "g", "i", "t", "h", "u", "b", "/", "w", "o", "r", "k", "f", "l", "o", "w", "s", "/", "a", ".", "y", "m", "l", "@", "v">> } }
              \cup { number }
        \* what follows uses: in a step
        stepUses ==
            { str(s) :
                s \in { <<"d", "o", "c", "k", "e", "r", ":", "/", "/", "i">>, <<".", "/", "a">>, <<".", ".", "/", "a">>, <<"o", "/", "r", "@", "v">>, <<"o", "/", "r", "/", "d", "@", "v">>, <<"o", "/", "r", "/", "d", "/", "e", "@", "v">>, <<"o", "@", "v">>,
                        <<"o", "/", "r">>, <<"o">>, <<"o", "/", "r", "@">>, <<"o", "/", "r", "@", "v", "@", "w">>, <<".", "a", "/", "r", "@", "v">> } }
              \cup { number }
        \* the steps of a job: a run step, a uses step (repository, docker), a
        \* step with both run and uses, one with neither, a uses step with env,
        \* a run step with env and an id, a step with an unsupported key
        steps ==
            { map(<< << "run" >> >>, << str(<<"l", "s">>) >>),
              map(<< << "uses" >> >>, << str(<<"o", "/", "r", "/", "d", "/", "e", "@", "v">>) >>),
              map(<< << "uses" >> >>, << str(<<"d", "o", "c", "k", "e", "r", ":", "/", "/", "i">>) >>),
              map(<< << "run" >>, << "uses" >> >>, << str(<<"l", "s">>), str(<<"o", "/", "r", "@", "v">>) >>),
              map(<< << "name" >> >>, << str(<<"n">>) >>),
              map(<< << "uses" >>, << "env" >> >>, << str(<<"o", "/", "r", "@", "v">>), env >>),
              map(<< << "id" >>, << "run" >>, << "env" >> >>, << str(<<"s", "1">>), str(<<"l", "s">>), env >>),
              map(<< << "run" >>, << "foo" >> >>, << str(<<"l", "s">>), str(<<"x">>) >>) }
        \* what follows steps: in a job: not an array, the empty array, and
        \* arrays of at most MaxSteps steps
        stepLists ==
            { str(<<"l", "s">>), array(<<>>) }
              \cup UNION { { array(s) : s \in [1..n -> steps] } : n \in 1..MaxSteps }
        \* the bodies of a job: steps with or without runs-on, env and an
        \* unsupported key; uses with or without env, with and an unsupported
        \* key; both steps and uses; neither; a body that is not a map
        jobBodies ==
            { map(<< << "steps" >> >>, << s >>) : s \in stepLists }
              \cup { map(<< << "runs-on" >>, << "steps" >> >>, << runsOn, s >>) :
                       runsOn \in { str(<<"u">>), str(<<>>), number, array(<< str(<<"u">>) >>),
                                    array(<<>>) },
                       s \in stepLists }
              \cup { map(<< << "uses" >> >>, << v >>) : v \in jobUses }
              \cup { map(<< << "runs-on" >>, << "steps" >> >>,
                         << str(<<"u">>), array(<< map(<< << "uses" >> >>, << v >>) >>) >>) :
                       v \in stepUses }
              \cup { map(<< << "runs-on" >>, << "steps" >> >>,
                         << str(<<"u">>),
                            array(<< map(<< << "run" >> >>, << str(<<"l", "s">>) >>),
                                     map(<< << "uses" >> >>, << v >>) >>) >>) :
                       v \in stepUses }
              \cup { map(<< << "runs-on" >>, << "steps" >>, << "env" >> >>, << str(<<"u">>), runsLs, env >>),
                     map(<< << "runs-on" >>, << "steps" >>, << "foo" >> >>,
                         << str(<<"u">>), runsLs, str(<<"x">>) >>),
                     map(<< << "uses" >>, << "env" >> >>, << str(<<".", "/", "a", ".", "y", "m", "l">>), env >>),
                     map(<< << "uses" >>, << "with" >> >>, << str(<<".", "/", "a", ".", "y", "m", "l">>), env >>),
                     map(<< << "uses" >>, << "foo" >> >>, << str(<<".", "/", "a", ".", "y", "m", "l">>), str(<<"x">>) >>),
                     map(<< << "uses" >>, << "foo" >> >>, << str(<<"a", ".", "y", "m", "l">>), str(<<"x">>) >>),
                     map(<< << "steps" >>, << "uses" >> >>, << runsLs, str(<<".", "/", "a", ".", "y", "m", "l">>) >>),
                     map(<< << "steps" >>, << "uses" >>, << "foo" >> >>,
                         << runsLs, str(<<".", "/", "a", ".", "y", "m", "l">>), str(<<"x">>) >>),
                     map(<< << "name" >> >>, << str(<<"n">>) >>),
                     map(<<>>, <<>>),
                     str(<<"x">>) }
        \* the bodies of the jobs of a document with several jobs
        siblingBodies ==
            { map(<< << "runs-on" >>, << "steps" >> >>, << str(<<"u">>), runsLs >>),
              map(<< << "uses" >> >>, << str(<<".", "/", "a", ".", "y", "m", "l">>) >>),
              map(<< << "runs-on" >>, << "steps" >>, << "foo" >> >>,
                  << str(<<"u">>), runsLs, str(<<"x">>) >>),
              map(<< << "steps" >>, << "uses" >> >>, << runsLs, str(<<".", "/", "a", ".", "y", "m", "l">>) >>) }
        \* what follows jobs: in a document: one job of any body, at most
        \* MaxEntries jobs of distinct ids, and values that are not a map of jobs
        jobsValues ==
            { map(<< <<"a", "b">> >>, << b >>) : b \in jobBodies }
              \cup UNION { { map(ids, bodies) :
                               ids \in { s \in [1..n -> jobIds] :
                                           \A i, j \in 1..n : i # j => s[i] # s[j] },
                               bodies \in [1..n -> siblingBodies] } :
                             n \in 1..MaxEntries }
              \cup { map(<<>>, <<>>), array(<<>>), null }
        \* the inputs of workflow_call and workflow_dispatch: every type, a
        \* type that is none, no type, a type that is not a string, an input
        \* that is not a map, a field an input cannot have, and choice inputs
        \* with and without options and default
        choice == str(<< "choice" >>)
        options == array(<< str(<<"B", "o", "o">>), str(<<"Y", "a", "a">>) >>)
        inputs ==
            { map(<< << "type" >> >>, << str(<< type >>) >>) :
                type \in { "boolean", "number", "string", "choice", "environment", "object" } }
              \cup { map(<< << "description" >> >>, << str(<<"d">>) >>),
                     map(<< << "type" >> >>, << number >>),
                     str(<<"x">>),
                     map(<< << "type" >>, << "options" >> >>, << str(<< "string" >>), options >>),
                     map(<< << "type" >>, << "default" >> >>, << str(<< "boolean" >>), str(<<"x">>) >>),
                     map(<< << "type" >>, << "required" >> >>, << str(<< "string" >>), str(<<"x">>) >>),
                     map(<< << "type" >>, << "options" >> >>, << choice, options >>),
                     map(<< << "type" >>, << "options" >> >>, << choice, array(<<>>) >>),
                     map(<< << "type" >>, << "options" >> >>, << choice, str(<<"B", "o", "o">>) >>),
                     map(<< << "type" >>, << "options" >>, << "default" >> >>,
                         << choice, options, str(<<"Y", "a", "a">>) >>),
                     map(<< << "type" >>, << "options" >>, << "default" >> >>,
                         << choice, options, str(<<"Y", "a", "h">>) >>),
                     map(<< << "type" >>, << "options" >>, << "default" >>, << "description" >> >>,
                         << choice, options, str(<<"Y", "a", "h">>), array(<<>>) >>),
                     map(<< << "type" >>, << "options" >>, << "default" >> >>,
                         << choice, array(<<>>), str(<<"Y", "a", "h">>) >>) }
        \* what follows on: in a document: arrays of at most MaxEvents names,
        \* maps of at most MaxEvents events with a cfg that is null, a map or a
        \* string, the events with inputs with one or two inputs, and values
        \* of other shapes
        names == { << "push" >>, << "workflow_call" >>, << "pull" >> }
        cfgs == { null, map(<<>>, <<>>), str(<<"x">>) }
        other == map(<< << "type" >> >>, << str(<< "string" >>) >>)
        ons ==
            UNION { { array([ i \in 1..n |-> str(s[i]) ]) : s \in [1..n -> names] } :
                      n \in 0..MaxEvents }
              \cup UNION { { map(s, c) :
                               s \in { t \in [1..n -> names] :
                                         \A i, j \in 1..n : i # j => t[i] # t[j] },
                               c \in [1..n -> cfgs] } :
                             n \in 0..MaxEvents }
              \cup { map(<< event >>, << map(<< << "inputs" >> >>, << i >>) >>) :
                       event \in { << "workflow_call" >>, << "workflow_dispatch" >>, << "push" >> },
                       i \in { map(<< <<"a">> >>, << input >>) : input \in inputs }
                                \cup { map(<< <<"a">>, <<"b">> >>, << input, other >>) : input \in inputs }
                                \cup { null, str(<<"x">>) } }
              \cup { str(<< "push" >>), null, number, array(<< str(<< "push" >>), number >>) }
        oneJob == map(<< <<"a", "b">> >>, << map(<< << "runs-on" >>, << "steps" >> >>, << str(<<"u">>), runsLs >>) >>)
        onPush == array(<< str(<< "push" >>) >>)
    IN  { map(<< << "on" >>, << "jobs" >> >>, << onPush, j >>) : j \in jobsValues }
          \cup { map(<< << "on" >>, << "jobs" >> >>, << o, oneJob >>) : o \in ons }
          \cup { map(<< << "jobs" >> >>, << oneJob >>),
                 map(<< << "on" >> >>, << onPush >>),
                 map(<< << "on" >>, << "jobs" >>, << "foo" >> >>, << onPush, oneJob, str(<<"x">>) >>),
                 map(<< << "on" >>, << "jobs" >>, << "defaults" >> >>, << onPush, oneJob, str(<<"x">>) >>),
                 map(<< << "on" >>, << "jobs" >>, << "defaults" >> >>,
                     << onPush, oneJob,
                        map(<< << "run" >>, << "foo" >> >>,
                            << map(<< << "shell" >>, << "foo" >> >>, << str(<<"x">>), str(<<"x">>) >>),
                               str(<<"x">>) >>) >>),
                 str(<<"x">>), number, Yaml("boolean", <<"t", "r", "u", "e">>, <<>>, <<>>), null, array(<<>>),
                 YUndefined }

InitRead ==
    /\ document \in { [ parsed |-> d, pc |-> "reading", result |-> GHWorkflowReadResult("none", GHWorkflowSchemaError(<<>>, "", <<>>),
                                         <<>>, <<>>, <<>>) ] : d \in Documents }
    /\ cache = <<>> /\ fetched = <<>> /\ requests = <<>>
    /\ workflows = <<>> /\ fetchCount = <<>> /\ run = <<>> /\ jobs = <<>> /\ raised = <<>>
    /\ reads = <<>> /\ call = <<>> /\ data = <<>>
    /\ cli = <<>> /\ metadata = <<>> /\ actionYaml = <<>>

\* readWorkflowModel(s) returns {workflow, schemaErrors}
readWorkflowModelReturns ==
    LET returns(result) ==
            /\ result.thrown = "none"
            /\ document' = [ document EXCEPT !.pc = "returned", !.result = result ]
    IN  /\ document.pc = "reading"
        /\ returns(readWorkflowModel(document.parsed))
        /\ UNCHANGED <<readerVars, analyzerVars, reads, call, data, cli, metadata, actionYaml>>

\* readWorkflowModel(s) throws
readWorkflowModelThrows ==
    LET throws(result) ==
            /\ result.thrown # "none"
            /\ document' = [ document EXCEPT !.pc = "raised", !.result = result ]
    IN  /\ document.pc = "reading"
        /\ throws(readWorkflowModel(document.parsed))
        /\ UNCHANGED <<readerVars, analyzerVars, reads, call, data, cli, metadata, actionYaml>>

NextRead == readWorkflowModelReturns \/ readWorkflowModelThrows

SpecRead == InitRead /\ [][NextRead]_vars

(***************************************************************************)
(* Reading one workflow document                                           *)
(***************************************************************************)
Returned == document.pc = "returned"
ReadJobs == document.result.workflow.jobs
ReadOn == document.result.workflow.on
ReadErrors == document.result.schemaErrors
JobsYaml == Get(document.parsed, << "jobs" >>)
OnYaml == Get(document.parsed, << "on" >>)

\* the number of schema errors read at a path
ErrorsAt(path) == Cardinality({ i \in 1..Len(ReadErrors) : ReadErrors[i].path = path })

\* the job read under an id is in the model
InModel(jobId) == \E i \in 1..Len(ReadJobs) : ReadJobs[i].id = jobId

\* the entries of jobs: that the reader takes up: the id matches the grammar
\* and the body is a map
JobEntries ==
    { k \in 1..Len(JobsYaml.keys) :
        jobAndStepIdRegex(JobsYaml.keys[k]) /\ isMap(JobsYaml.items[k]) }

\* C12 as stated: reading a document whose root is a map returns and never
\* raises, whatever its schema violations (a step with both run and uses or
\* with neither included); reading raises only for a root that is not a map,
\* with the message 'This <type> YAML is simply the opportunity to begin
\* again, this time with a valid workflow YAML'.
C12_RaisesOnlyForNonMapRoot ==
    /\ (document.pc # "reading" /\ isMap(document.parsed)) => Returned
    /\ document.pc = "raised" =>
           /\ ~isMap(document.parsed)
           /\ \E type \in { "string", "number", "boolean", "object", "undefined" } :
                  document.result.error.message =
                      << "This ", type,
                         " YAML is simply the opportunity to begin again, this time with a valid workflow YAML" >>

\* C13: in a model that was returned every job is of the steps kind or of the
\* uses kind and of one only; a job of the steps kind has a runs-on value; no
\* job of the uses kind and no step of the uses kind has env; and a job body
\* with both steps and uses, or with neither, gives one schema error at
\* jobs.<id> and no job in the model.
C13_JobsAreOfOneKind ==
    Returned =>
        /\ \A i \in 1..Len(ReadJobs) :
               LET job == ReadJobs[i].job
               IN  /\ job.__KIND \in {"steps", "uses"}
                   /\ job.__KIND = "steps" =>
                          /\ job.uses = NoSpecifier
                          /\ job.runsOn # YUndefined
                          /\ job.runsOn.type \in {"string", "array", "map"}
                          /\ \A s \in 1..Len(job.steps) :
                                 /\ job.steps[s].__KIND \in {"run", "uses"}
                                 /\ job.steps[s].__KIND = "uses" =>
                                        /\ job.steps[s].env = YUndefined
                                        /\ job.steps[s].run = NotSet
                                        /\ job.steps[s].uses # NoSpecifier
                                 /\ job.steps[s].__KIND = "run" =>
                                        /\ job.steps[s].uses = NoSpecifier
                                        /\ job.steps[s].run # NotSet
                   /\ job.__KIND = "uses" =>
                          /\ job.uses # NoSpecifier
                          /\ job.steps = <<>>
                          /\ job.runsOn = YUndefined
                          /\ job.env = YUndefined
        /\ \A k \in JobEntries :
               LET body == JobsYaml.items[k]
               IN  (In(<< "steps" >>, body) <=> In(<< "uses" >>, body)) =>
                       /\ ~InModel(JobsYaml.keys[k])
                       /\ ErrorsAt(<< "jobs." >> \o JobsYaml.keys[k]) = 1

\* a job with both steps and uses was left out with its one error while the
\* job next to it was read as a steps job
C13_Witness ==
    /\ Returned
    /\ Len(JobsYaml.keys) = 2
    /\ In(<< "steps" >>, JobsYaml.items[1]) /\ In(<< "uses" >>, JobsYaml.items[1])
    /\ ~InModel(JobsYaml.keys[1])
    /\ ErrorsAt(<< "jobs." >> \o JobsYaml.keys[1]) = 1
    /\ Len(ReadJobs) = 1 /\ ReadJobs[1].id = JobsYaml.keys[2]
    /\ ReadJobs[1].job.__KIND = "steps" /\ ReadJobs[1].job.runsOn.text = <<"u">>

\* C14 as stated: every job of the steps kind in a model that was returned has
\* at least one step.
C14_StepsJobsHaveSteps ==
    Returned =>
        \A i \in 1..Len(ReadJobs) :
            ReadJobs[i].job.__KIND = "steps" => Len(ReadJobs[i].job.steps) > 0

\* the map m without its key, and the document with the body of its k-th job
\* replaced
WithoutKey(m, key) ==
    LET kept == SelectSeq([ i \in 1..Len(m.keys) |-> i ], LAMBDA i : m.keys[i] # key)
    IN  Yaml("map", <<>>, [ i \in 1..Len(kept) |-> m.keys[kept[i]] ],
             [ i \in 1..Len(kept) |-> m.items[kept[i]] ])
WithJobBody(k, body) ==
    [ document.parsed EXCEPT
        !.items = [ i \in 1..Len(document.parsed.items) |->
                      IF document.parsed.keys[i] = << "jobs" >>
                      THEN [ JobsYaml EXCEPT !.items[k] = body ]
                      ELSE document.parsed.items[i] ] ]

\* the document with the k-th job as its only job
OnlyJob(k) ==
    [ document.parsed EXCEPT
        !.items = [ i \in 1..Len(document.parsed.items) |->
                      IF document.parsed.keys[i] = << "jobs" >>
                      THEN Yaml("map", <<>>, << JobsYaml.keys[k] >>, << JobsYaml.items[k] >>)
                      ELSE document.parsed.items[i] ] ]

\* the keys a job may have
JobKeys ==
    { << "concurrency" >>, << "container" >>, << "continue-on-error" >>, << "env" >>,
      << "environment" >>, << "defaults" >>, << "if" >>, << "name" >>, << "needs" >>,
      << "outputs" >>, << "permissions" >>, << "runs-on" >>, << "secrets" >>,
      << "services" >>, << "strategy" >>, << "steps" >>, << "timeout-minutes" >>,
      << "uses" >>, << "with" >> }

\* C15: a key of a job body that is not one of the keys a job may have adds
\* one schema error at jobs.<id>.<key> and nothing else: the model read is
\* the model read from the document without that key, and so are the other
\* schema errors, in their order.
C15_UnsupportedJobKeyOnlyAddsAnError ==
    Returned =>
        \A k \in JobEntries :
            \A n \in 1..Len(JobsYaml.items[k].keys) :
                LET key == JobsYaml.items[k].keys[n]
                    path == << "jobs." >> \o JobsYaml.keys[k] \o << "." >> \o key
                    without == readWorkflowModel(WithJobBody(k, WithoutKey(JobsYaml.items[k], key)))
                IN  key \notin JobKeys =>
                        /\ ErrorsAt(path) = 1
                        /\ without.thrown = "none"
                        /\ without.workflow = document.result.workflow
                        /\ without.schemaErrors =
                               SelectSeq(ReadErrors, LAMBDA e : e.path # path)

\* a steps job with the key foo was read with its one error and is in the
\* model, as is the job after it
C15_Witness ==
    /\ Returned
    /\ Len(JobsYaml.keys) = 2
    /\ In(<< "foo" >>, JobsYaml.items[1])
    /\ ErrorsAt(<< "jobs." >> \o JobsYaml.keys[1] \o << ".", "foo" >>) = 1
    /\ Len(ReadErrors) = 1
    /\ Len(ReadJobs) = 2
    /\ ReadJobs[1].job.__KIND = "steps" /\ ReadJobs[2].job.__KIND = "uses"

\* ^[_a-z][_\-a-z0-9]+$
JobIdGrammar(id) ==
    LET first == { "_", "a", "b", "c", "d", "e", "f", "g", "h", "i", "j", "k", "l", "m",
                   "n", "o", "p", "q", "r", "s", "t", "u", "v", "w", "x", "y", "z" }
        rest == first \cup { "-", "0", "1", "2", "3", "4", "5", "6", "7", "8", "9" }
    IN  /\ Len(id) >= 2
        /\ id[1] \in first
        /\ \A i \in 2..Len(id) : id[i] \in rest

\* C16: a job key that does not match the grammar gives one schema error at
\* jobs.<id>, the error of the job id, and no job in the model; a key that
\* matches gives no such error; and each job is read as it is read from the
\* document that has it as its only job.
C16_JobIdGrammar ==
    (Returned /\ isMap(JobsYaml)) =>
        \A k \in 1..Len(JobsYaml.keys) :
            LET jobId == JobsYaml.keys[k]
                message == << "Job id " >> \o jobId
                               \o << " must start with a letter or _ and only contain alphanumeric _ and -" >>
                alone == readWorkflowModel(OnlyJob(k))
            IN  /\ ~JobIdGrammar(jobId) =>
                       /\ ~InModel(jobId)
                       /\ ErrorsAt(<< "jobs." >> \o jobId) = 1
                       /\ \E i \in 1..Len(ReadErrors) :
                              /\ ReadErrors[i].path = << "jobs." >> \o jobId
                              /\ ReadErrors[i].message = message
                /\ JobIdGrammar(jobId) =>
                       \A i \in 1..Len(ReadErrors) : ReadErrors[i].message # message
                /\ alone.thrown = "none"
                /\ \A job \in { alone.workflow.jobs[i] : i \in 1..Len(alone.workflow.jobs) } :
                       \E i \in 1..Len(ReadJobs) : ReadJobs[i] = job
                /\ InModel(jobId) => alone.workflow.jobs # <<>>

\* a job whose key is one letter was left out with its one error and the job
\* after it was read
C16_Witness ==
    /\ Returned
    /\ Len(JobsYaml.keys) = 2
    /\ JobsYaml.keys[1] = <<"a">>
    /\ ~InModel(<<"a">>)
    /\ ErrorsAt(<< "jobs.", "a" >>) = 1
    /\ Len(ReadJobs) = 1 /\ ReadJobs[1].id = JobsYaml.keys[2]

\* the names of the events of a workflow
EventNames == { << "pull_request" >>, << "push" >>, << "workflow_call" >>, << "workflow_dispatch" >> }

\* the event is in the model, and it is there with nothing set
OnHas(event) == \E i \in 1..Len(ReadOn) : ReadOn[i].__KIND = event
OnHasEmpty(event) ==
    \E i \in 1..Len(ReadOn) :
        ReadOn[i] = [ __KIND |-> event, hasInputs |-> FALSE, inputs |-> <<>> ]

\* the schema errors at on and below it: their paths start with on
OnErrors ==
    SelectSeq(ReadErrors, LAMBDA e : e.path # <<>> /\ e.path[1] \in { "on", "on." })

\* C17: on is read when it is an array of event names, each name then in the
\* model with nothing set, or a map from event names to null (in the model
\* with nothing set) or to a map (in the model); an on of any other shape
\* gives one schema error at on and no event in the model; a name that is
\* not the name of an event gives one schema error at on.<name> where it
\* stands and is not in the model, and the events next to it are.
C17_OnIsAnArrayOrAMapOfEvents ==
    (Returned /\ In(<< "on" >>, document.parsed)) =>
        IF isArrayOfStrings(OnYaml)
        THEN /\ \A i \in 1..Len(OnYaml.items) :
                    IF OnYaml.items[i].text \in EventNames
                    THEN OnHasEmpty(OnYaml.items[i].text)
                    ELSE /\ ~OnHas(OnYaml.items[i].text)
                         /\ ErrorsAt(<< "on." >> \o OnYaml.items[i].text) =
                                Cardinality({ j \in 1..Len(OnYaml.items) :
                                                OnYaml.items[j] = OnYaml.items[i] })
             /\ \A i \in 1..Len(ReadOn) :
                    \E j \in 1..Len(OnYaml.items) : OnYaml.items[j].text = ReadOn[i].__KIND
             /\ Len(OnErrors) =
                    Cardinality({ j \in 1..Len(OnYaml.items) : OnYaml.items[j].text \notin EventNames })
        ELSE IF isMap(OnYaml)
        THEN /\ \A k \in 1..Len(OnYaml.keys) :
                    LET event == OnYaml.keys[k]
                        cfg == OnYaml.items[k]
                    IN  /\ event \notin EventNames =>
                               ~OnHas(event) /\ ErrorsAt(<< "on." >> \o event) = 1
                        /\ (event \in EventNames /\ cfg.type = "null") => OnHasEmpty(event)
                        /\ (event \in EventNames /\ cfg.type = "map") =>
                               OnHas(event) /\ ErrorsAt(<< "on." >> \o event) = 0
                        /\ (event \in EventNames /\ cfg.type \notin {"null", "map"}) =>
                               ~OnHas(event) /\ ErrorsAt(<< "on." >> \o event) = 1
             /\ \A i \in 1..Len(ReadOn) :
                    \E k \in 1..Len(OnYaml.keys) : OnYaml.keys[k] = ReadOn[i].__KIND
             /\ ErrorsAt(<< "on" >>) = 0
        ELSE /\ ReadOn = <<>>
             /\ OnErrors = << [ message |-> << "Must be an array or map of workflow triggering events" >>,
                                object |-> "workflow", path |-> << "on" >> ] >>

\* of the array [pull, push] the event push was read and pull gave its error
C17_Witness ==
    /\ Returned
    /\ isArrayOfStrings(OnYaml) /\ Len(OnYaml.items) = 2
    /\ OnYaml.items[1].text = << "pull" >> /\ OnYaml.items[2].text = << "push" >>
    /\ ReadOn = << [ __KIND |-> << "push" >>, hasInputs |-> FALSE, inputs |-> <<>> ] >>
    /\ ErrorsAt(<< "on.", "pull" >>) = 1 /\ Len(ReadErrors) = 1

\* the input types of an event
EventInputTypes(event) ==
    IF event = << "workflow_call" >> THEN { << "boolean" >>, << "number" >>, << "string" >> }
    ELSE IF event = << "workflow_dispatch" >>
    THEN { << "boolean" >>, << "number" >>, << "string" >>, << "choice" >>, << "environment" >> }
    ELSE {}

\* the inputs read for an event of the model, and the inputs: map of the
\* event in the document when the event has one
InputsRead(event) ==
    LET i == CHOOSE i \in 1..Len(ReadOn) : ReadOn[i].__KIND = event
    IN  IF OnHas(event) THEN ReadOn[i].inputs ELSE <<>>
InputsYaml(event) == Get(Get(OnYaml, event), << "inputs" >>)
InputRead(event, inputId) ==
    \E i \in 1..Len(InputsRead(event)) : InputsRead(event)[i].id = inputId

\* C18: every input of a model that was returned has a type of its event:
\* boolean, number or string under workflow_call, and these, choice or
\* environment under workflow_dispatch; an input without type, with a type
\* that is not a string or with a type that is none of its event gives a
\* schema error at on.<event>.inputs.<id>.type and is not in the model.
C18_InputTypesOfTheEvent ==
    Returned =>
        /\ \A e \in 1..Len(ReadOn) :
               /\ ReadOn[e].inputs # <<>> => ReadOn[e].__KIND \in { << "workflow_call" >>, << "workflow_dispatch" >> }
               /\ \A i \in 1..Len(ReadOn[e].inputs) :
                      ReadOn[e].inputs[i].input.type \in EventInputTypes(ReadOn[e].__KIND)
        /\ \A event \in { << "workflow_call" >>, << "workflow_dispatch" >> } :
               (isMap(OnYaml) /\ isMap(Get(OnYaml, event)) /\ isMap(InputsYaml(event))) =>
                   \A k \in 1..Len(InputsYaml(event).keys) :
                       LET inputId == InputsYaml(event).keys[k]
                           input == InputsYaml(event).items[k]
                           type == Get(input, << "type" >>)
                       IN  ( /\ isMap(input)
                             /\ \/ ~In(<< "type" >>, input)
                                \/ type.type # "string"
                                \/ type.text \notin EventInputTypes(event) ) =>
                               /\ ~InputRead(event, inputId)
                               /\ ErrorsAt(<< "on." >> \o event \o << ".inputs." >> \o inputId
                                               \o << ".type" >>) = 1

\* under workflow_call an input of type choice gave its error and was left
\* out, and the string input after it was read
C18_Witness ==
    /\ Returned
    /\ isMap(OnYaml) /\ isMap(Get(OnYaml, << "workflow_call" >>))
    /\ isMap(InputsYaml(<< "workflow_call" >>))
    /\ Len(InputsYaml(<< "workflow_call" >>).keys) = 2
    /\ Get(InputsYaml(<< "workflow_call" >>).items[1], << "type" >>).text = << "choice" >>
    /\ ErrorsAt(<< "on.", "workflow_call", ".inputs.", "a", ".type" >>) = 1
    /\ Len(InputsRead(<< "workflow_call" >>)) = 1
    /\ InputsRead(<< "workflow_call" >>)[1].id = <<"b">>
    /\ InputsRead(<< "workflow_call" >>)[1].input.type = << "string" >>

\* C19 as stated: every choice input of a model that was returned has at
\* least one option and a default, when it has one, that is one of its
\* options; a choice input without options is not in the model and gives one
\* schema error; and one with a default that is not an option is not in the
\* model and gives one schema error at
\* on.workflow_dispatch.inputs.<id>.default, its message the default in
\* quotes followed by 'is not an input option'.
C19_ChoiceInputsHaveOptions ==
    Returned =>
        /\ \A i \in 1..Len(InputsRead(<< "workflow_dispatch" >>)) :
               LET input == InputsRead(<< "workflow_dispatch" >>)[i].input
               IN  input.type = << "choice" >> =>
                       /\ input.options # <<>>
                       /\ input.default # YUndefined =>
                              \E o \in 1..Len(input.options) : input.options[o] = input.default.text
        /\ (isMap(OnYaml) /\ isMap(Get(OnYaml, << "workflow_dispatch" >>))
                /\ isMap(InputsYaml(<< "workflow_dispatch" >>))) =>
               \A k \in 1..Len(InputsYaml(<< "workflow_dispatch" >>).keys) :
                   LET inputId == InputsYaml(<< "workflow_dispatch" >>).keys[k]
                       at == << "on.workflow_dispatch.inputs." >> \o inputId
                       input == InputsYaml(<< "workflow_dispatch" >>).items[k]
                       options == Get(input, << "options" >>)
                       default == Get(input, << "default" >>)
                   IN  (isMap(input) /\ Get(input, << "type" >>) = Yaml("string", << "choice" >>, <<>>, <<>>)) =>
                           /\ ~In(<< "options" >>, input) =>
                                  /\ ~InputRead(<< "workflow_dispatch" >>, inputId)
                                  /\ ErrorsAt(at) = 1
                           /\ ( /\ isArrayOfStrings(options)
                                /\ isString(default)
                                /\ \A o \in 1..Len(options.items) : options.items[o] # default ) =>
                                  /\ ~InputRead(<< "workflow_dispatch" >>, inputId)
                                  /\ \E e \in 1..Len(ReadErrors) :
                                         /\ ReadErrors[e].path = at \o << ".default" >>
                                         /\ ReadErrors[e].message =
                                                << "'" >> \o default.text \o << "' is not an input option" >>
                                  /\ ErrorsAt(at \o << ".default" >>) = 1

\* the text before the first @ of s and the text after it
BeforeAt(s) ==
    IF \E i \in 1..Len(s) : s[i] = "@"
    THEN SubSeq(s, 1, (CHOOSE i \in 1..Len(s) : s[i] = "@" /\ \A j \in 1..(i - 1) : s[j] # "@") - 1)
    ELSE s
AfterAt(s) == SubSeq(s, Len(BeforeAt(s)) + 2, Len(s))

\* the segments of s between its slashes
RECURSIVE Segments(_)
Segments(s) ==
    IF \E i \in 1..Len(s) : s[i] = "/"
    THEN LET i == CHOOSE i \in 1..Len(s) : s[i] = "/" /\ \A j \in 1..(i - 1) : s[j] # "/"
         IN  << SubSeq(s, 1, i - 1) >> \o Segments(SubSeq(s, i + 1, Len(s)))
    ELSE << s >>

\* <file>.yml or <file>.yaml
WorkflowFileName(s) ==
    \/ Len(s) > 4 /\ SubSeq(s, Len(s) - 3, Len(s)) = <<".", "y", "m", "l">>
    \/ Len(s) > 5 /\ SubSeq(s, Len(s) - 4, Len(s)) = <<".", "y", "a", "m", "l">>

\* owner/repo/.github/workflows/<file>.(yml|yaml)@<ref>
RepositoryWorkflowForm(s) ==
    /\ Len(Segments(BeforeAt(s))) = 5
    /\ Segments(BeforeAt(s))[3] = <<".", "g", "i", "t", "h", "u", "b">>
    /\ Segments(BeforeAt(s))[4] = <<"w", "o", "r", "k", "f", "l", "o", "w", "s">>
    /\ WorkflowFileName(Segments(BeforeAt(s))[5])
    /\ Len(BeforeAt(s)) < Len(s)
    /\ AfterAt(s) # <<>>

\* C20 as stated: of a job with uses, the value is read as a workflow in the
\* file system, with the value as its path, exactly when it starts with ./
\* or ../; otherwise as a workflow in a repository, with owner, repo, ref,
\* filename and the value as its specifier, exactly when it is
\* owner/repo/.github/workflows/<file>.(yml|yaml)@<ref>; any other value
\* gives one schema error at jobs.<id>.uses and no job in the model.
C20_JobUsesForms ==
    Returned =>
        \A k \in JobEntries :
            LET jobId == JobsYaml.keys[k]
                v == Get(JobsYaml.items[k], << "uses" >>)
                job == ReadJobs[CHOOSE i \in 1..Len(ReadJobs) : ReadJobs[i].id = jobId].job
            IN  JobsYaml.items[k].keys = << << "uses" >> >> =>
                    IF v.type = "string"
                          /\ \/ Len(v.text) >= 2 /\ SubSeq(v.text, 1, 2) = <<".", "/">>
                             \/ Len(v.text) >= 3 /\ SubSeq(v.text, 1, 3) = <<".", ".", "/">>
                    THEN /\ InModel(jobId)
                         /\ job.uses.__KIND = "filesystem" /\ job.uses.path = v.text
                    ELSE IF v.type = "string" /\ RepositoryWorkflowForm(v.text)
                    THEN /\ InModel(jobId)
                         /\ job.uses.__KIND = "repository"
                         /\ job.uses.owner = Segments(BeforeAt(v.text))[1]
                         /\ job.uses.repo = Segments(BeforeAt(v.text))[2]
                         /\ job.uses.filename = Segments(BeforeAt(v.text))[5]
                         /\ job.uses.ref = AfterAt(v.text)
                         /\ job.uses.specifier = v.text
                    ELSE /\ ~InModel(jobId)
                         /\ ErrorsAt(<< "jobs." >> \o jobId \o << ".uses" >>) = 1

\* the segments from the third on, joined by slashes
TrailingSegments(segments) ==
    Flatten([ i \in 1..(Len(segments) - 2) |->
                IF i = 1 THEN segments[3] ELSE << "/" >> \o segments[i + 2] ])

\* the entries of jobs: with runs-on and steps whose last step has uses alone
\* and whose earlier steps have run alone
JobsOfUsesStep ==
    { k \in JobEntries :
        LET stepsYaml == Get(JobsYaml.items[k], << "steps" >>)
        IN  /\ JobsYaml.items[k].keys = << << "runs-on" >>, << "steps" >> >>
            /\ isString(Get(JobsYaml.items[k], << "runs-on" >>))
            /\ Get(JobsYaml.items[k], << "runs-on" >>).text # <<>>
            /\ isArrayOfMaps(stepsYaml)
            /\ stepsYaml.items # <<>>
            /\ \A i \in 1..Len(stepsYaml.items) :
                   stepsYaml.items[i].keys =
                       IF i = Len(stepsYaml.items) THEN << << "uses" >> >> ELSE << << "run" >> >> }

\* C21 as stated: the uses value of a step is read as a docker action with
\* the value as its uri when it starts with docker://, as an action in the
\* file system with the value as its path when it starts with ./ or ../, and
\* otherwise as an action in a repository with owner the first segment, repo
\* the second, subdirectory the remaining segments joined by / (absent when
\* there are none), ref the part after @ and the value as its specifier; a
\* value with fewer than two segments or without a ref gives one schema error
\* at jobs.<id>.steps[i].uses.
C21_StepUsesForms ==
    Returned =>
        \A k \in JobsOfUsesStep :
            LET jobId == JobsYaml.keys[k]
                stepsYaml == Get(JobsYaml.items[k], << "steps" >>).items
                i == Len(stepsYaml)
                v == Get(stepsYaml[i], << "uses" >>)
                segments == Segments(BeforeAt(v.text))
                job == ReadJobs[CHOOSE j \in 1..Len(ReadJobs) : ReadJobs[j].id = jobId].job
                at == << "jobs." >> \o jobId \o << ".steps[", ToString(i - 1), "].uses" >>
            IN  IF v.type = "string" /\ Len(v.text) >= 9 /\ SubSeq(v.text, 1, 9) = <<"d", "o", "c", "k", "e", "r", ":", "/", "/">>
                THEN /\ InModel(jobId)
                     /\ job.steps[i].uses.__KIND = "docker" /\ job.steps[i].uses.uri = v.text
                ELSE IF v.type = "string"
                          /\ \/ Len(v.text) >= 2 /\ SubSeq(v.text, 1, 2) = <<".", "/">>
                             \/ Len(v.text) >= 3 /\ SubSeq(v.text, 1, 3) = <<".", ".", "/">>
                THEN /\ InModel(jobId)
                     /\ job.steps[i].uses.__KIND = "filesystem" /\ job.steps[i].uses.path = v.text
                ELSE IF v.type = "string" /\ Len(segments) >= 2
                          /\ Len(BeforeAt(v.text)) < Len(v.text) /\ AfterAt(v.text) # <<>>
                THEN /\ InModel(jobId)
                     /\ job.steps[i].uses.__KIND = "repository"
                     /\ job.steps[i].uses.owner = segments[1]
                     /\ job.steps[i].uses.repo = segments[2]
                     /\ job.steps[i].uses.subdirectory =
                            IF Len(segments) > 2 THEN TrailingSegments(segments) ELSE NotSet
                     /\ job.steps[i].uses.ref = AfterAt(v.text)
                     /\ job.steps[i].uses.specifier = v.text
                ELSE /\ ~InModel(jobId)
                     /\ ErrorsAt(at) = 1

(***************************************************************************)
(* SpecCli: one run of the command line program                            *)
(***************************************************************************)
MaxWorkflows == 2

\* String.prototype.endsWith
endsWith(s, suffix) ==
    Len(s) >= Len(suffix) /\ SubSeq(s, Len(s) - Len(suffix) + 1, Len(s)) = suffix

\* path.extname of a file name: from its last dot on, nothing when it has no
\* dot or only a leading one
extname(name) ==
    LET dots == { i \in 2..Len(name) : name[i] = "." }
    IN  IF dots = {} THEN <<>> ELSE SubSeq(name, Max(dots), Len(name))

\* what analyzeWorkflow gives for a workflow: it returns, or throws a
\* GHWorkflowError of one of the codes, GitHubApiRateLimited, another Error
\* or a value that is no Error
AnalyzeOutcomes ==
    { [ thrown |-> "none", code |-> "" ],
      [ thrown |-> "GitHubApiRateLimited", code |-> "" ],
      [ thrown |-> "Error", code |-> "" ],
      [ thrown |-> "other", code |-> "" ] }
      \cup { [ thrown |-> "GHWorkflowError", code |-> c ] :
               c \in { "ACTION_NOT_FOUND", "ACTION_SCHEMA", "WORKFLOW_NOT_FOUND",
                       "WORKFLOW_RUNTIME", "WORKFLOW_SCHEMA" } }

\* the command lines and file systems of a run: the arguments after the
\* program name, what stat gives for the path, the segments of the resolved
\* path, whether <path>/.github/workflows is a directory, what readdir lists
\* there, and what analyzing each workflow gives
CliInputs ==
    LET none == [ thrown |-> "none", code |-> "" ]
        input(args, stat, path, workflowsDir, listing) ==
            [ args |-> args, stat |-> stat, path |-> path, workflowsDir |-> workflowsDir,
              listing |-> listing ]
        project == << <<"p", "r", "o", "j">> >>
        inWorkflows(name) == << <<"p", "r", "o", "j">>, <<".", "g", "i", "t", "h", "u", "b">>, <<"w", "o", "r", "k", "f", "l", "o", "w", "s">>, name >>
        entries ==
            { [ name |-> <<"a", ".", "y", "m", "l">>, outcome |-> o ] : o \in AnalyzeOutcomes }
              \cup { [ name |-> <<"b", ".", "y", "a", "m", "l">>, outcome |-> none ],
                     [ name |-> <<"c", ".", "t", "x", "t">>, outcome |-> none ] }
    IN  { input(args, "dir", project, TRUE, <<>>) :
            args \in { <<>>, << <<"-", "h">> >>, << <<"-", "-", "h", "e", "l", "p">> >>, << <<"p">>, <<"q">> >>, << <<"p">>, <<"-", "h">> >> } }
          \cup { input(<< <<"p">> >>, stat, project, FALSE, <<>>) : stat \in { "absent", "throws", "dir" } }
          \cup UNION { { input(<< <<"p">> >>, "dir", project, TRUE, listing) :
                           listing \in [1..n -> entries] } : n \in 0..MaxWorkflows }
          \cup { input(<< <<"p">> >>, "file", inWorkflows(<<"a", ".", "y", "m", "l">>), FALSE,
                       << [ name |-> <<"a", ".", "y", "m", "l">>, outcome |-> o ] >>) : o \in AnalyzeOutcomes }
          \cup { input(<< <<"p">> >>, "file", path, FALSE, << [ name |-> path[Len(path)], outcome |-> none ] >>) :
                   path \in { inWorkflows(<<"b", ".", "y", "a", "m", "l">>), inWorkflows(<<"c", ".", "t", "x", "t">>), inWorkflows(<<"d", ".", "x", "y", "m", "l">>),
                              inWorkflows(<<"y", "m", "l">>),
                              << <<"p", "r", "o", "j">>, <<"w", "o", "r", "k", "f", "l", "o", "w", "s">>, <<"a", ".", "y", "m", "l">> >>,
                              << <<"p", "r", "o", "j">>, <<".", "g", "i", "t", "h", "u", "b">>, <<"a", ".", "y", "m", "l">> >>,
                              << <<"a", ".", "y", "m", "l">> >> } }

InitCli ==
    /\ cli \in { [ input |-> i, pc |-> "main", workflows |-> <<>>, validated |-> 0,
                   output |-> <<>>, exitCode |-> 0 ] : i \in CliInputs }
    /\ cache = <<>> /\ fetched = <<>> /\ requests = <<>>
    /\ workflows = <<>> /\ fetchCount = <<>> /\ run = <<>> /\ jobs = <<>> /\ raised = <<>>
    /\ reads = <<>> /\ call = <<>> /\ data = <<>> /\ document = <<>>
    /\ metadata = <<>> /\ actionYaml = <<>>

\* process.exit(1) after console.error of the message
errorExit(c, msg) ==
    [ c EXCEPT !.pc = "exited", !.exitCode = 1,
               !.output = Append(@, [ stream |-> "stderr", line |-> msg, workflow |-> <<>> ]) ]

\* validateProjectWorkflow is called for the next workflow; when none is
\* left nothing is pending and the process ends with the exit code it has
validateNext(c) ==
    IF c.validated < Len(c.workflows)
    THEN [ c EXCEPT !.pc = "analyzeWorkflow" ]
    ELSE [ c EXCEPT !.pc = "exited" ]

\* the arguments are looked at, and handlePathInput calls stat
main ==
    /\ cli.pc = "main"
    /\ cli' = IF (\E i \in 1..Len(cli.input.args) : cli.input.args[i] \in { <<"-", "h">>, <<"-", "-", "h", "e", "l", "p">> })
                   \/ Len(cli.input.args) # 1
              THEN [ cli EXCEPT !.pc = "exited", !.exitCode = 1,
                                !.output = Append(@, [ stream |-> "stdout", line |-> "usage",
                                                       workflow |-> <<>> ]) ]
              ELSE [ cli EXCEPT !.pc = "stat" ]
    /\ UNCHANGED <<readerVars, analyzerVars, reads, call, data, document, metadata, actionYaml>>

\* stat settles in resolveStat: handlePathInput goes on with handleDirPath,
\* which calls stat for the workflows directory, or with handleFilePath
handlePathInput ==
    LET path == cli.input.path
        name == path[Len(path)]
        handleFilePath ==
            IF ~(\E i \in 1..Len(extname(name)) :
                     \/ i + 2 <= Len(extname(name)) /\ SubSeq(extname(name), i, i + 2) = <<"y", "m", "l">>
                     \/ i + 3 <= Len(extname(name)) /\ SubSeq(extname(name), i, i + 3) = <<"y", "a", "m", "l">>)
            THEN errorExit(cli, "path is not a YAML file")
            ELSE IF ~(/\ Len(path) >= 3
                      /\ path[Len(path) - 1] = <<"w", "o", "r", "k", "f", "l", "o", "w", "s">>
                      /\ path[Len(path) - 2] = <<".", "g", "i", "t", "h", "u", "b">>)
            THEN errorExit(cli, "path is not a workflow in a .github/workflows directory")
            ELSE validateNext([ cli EXCEPT !.workflows = << cli.input.listing[1] >> ])
    IN  /\ cli.pc = "stat"
        /\ cli' = CASE cli.input.stat = "absent" ->
                           errorExit(cli, "path is not a file or directory")
                    [] cli.input.stat = "throws" ->
                           [ cli EXCEPT !.pc = "exited", !.exitCode = 1,
                                        !.output = Append(@, [ stream |-> "stderr",
                                                               line |-> "uncaught",
                                                               workflow |-> <<>> ]) ]
                    [] cli.input.stat = "dir" -> [ cli EXCEPT !.pc = "isDirectory" ]
                    [] cli.input.stat = "file" -> handleFilePath
        /\ UNCHANGED <<readerVars, analyzerVars, reads, call, data, document, metadata, actionYaml>>

\* isDirectory(workflowsPath) settles in handleDirPath
handleDirPathIsDirectory ==
    /\ cli.pc = "isDirectory"
    /\ cli' = IF ~cli.input.workflowsDir
              THEN errorExit(cli, "directory does not have a .github/workflows directory")
              ELSE [ cli EXCEPT !.pc = "readdir" ]
    /\ UNCHANGED <<readerVars, analyzerVars, reads, call, data, document, metadata, actionYaml>>

\* readdir(workflowsPath) settles in handleDirPath
handleDirPathReaddir ==
    LET listing == cli.input.listing
        workflowFiles ==
            SelectSeq(listing, LAMBDA e : endsWith(e.name, <<".", "y", "m", "l">>) \/ endsWith(e.name, <<".", "y", "a", "m", "l">>))
    IN  /\ cli.pc = "readdir"
        /\ cli' = IF Len(workflowFiles) = 0
                  THEN errorExit(cli, "no workflows in .github/workflows directory")
                  ELSE validateNext([ cli EXCEPT !.workflows = workflowFiles ])
        /\ UNCHANGED <<readerVars, analyzerVars, reads, call, data, document, metadata, actionYaml>>

\* analyzeWorkflow returns in validateProjectWorkflow
validateProjectWorkflowReturns ==
    LET workflow == cli.workflows[cli.validated + 1]
    IN  /\ cli.pc = "analyzeWorkflow"
        /\ workflow.outcome.thrown = "none"
        /\ cli' = validateNext([ cli EXCEPT
                      !.validated = @ + 1,
                      !.output = Append(@, [ stream |-> "stdout", line |-> "is valid",
                                             workflow |-> workflow.name ]) ])
        /\ UNCHANGED <<readerVars, analyzerVars, reads, call, data, document, metadata, actionYaml>>

\* the lines workflowErrorExit prints for a GHWorkflowError: it prints and
\* returns
workflowErrorExit(c, e, validating) ==
    [ c EXCEPT !.output = Append(@, [ stream |-> "stdout", line |-> e.code,
                                      workflow |-> validating ]) ]

\* analyzeWorkflow throws in validateProjectWorkflow: the catch
validateProjectWorkflowCatches ==
    LET workflow == cli.workflows[cli.validated + 1]
        e == workflow.outcome
        caught == [ cli EXCEPT !.validated = @ + 1 ]
    IN  /\ cli.pc = "analyzeWorkflow"
        /\ e.thrown # "none"
        /\ cli' = validateNext(
                      IF e.thrown = "GHWorkflowError"
                      THEN workflowErrorExit(caught, e, workflow.name)
                      ELSE IF e.thrown = "GitHubApiRateLimited"
                      THEN [ caught EXCEPT !.output =
                                 Append(@, [ stream |-> "stdout", line |-> "rate limited until",
                                             workflow |-> workflow.name ]) ]
                      ELSE IF e.thrown = "Error"
                      THEN [ caught EXCEPT !.output =
                                 Append(@, [ stream |-> "stdout", line |-> "message",
                                             workflow |-> workflow.name ]) ]
                      ELSE caught)
        /\ UNCHANGED <<readerVars, analyzerVars, reads, call, data, document, metadata, actionYaml>>

NextCli ==
    \/ main
    \/ handlePathInput
    \/ handleDirPathIsDirectory
    \/ handleDirPathReaddir
    \/ validateProjectWorkflowReturns
    \/ validateProjectWorkflowCatches

SpecCli == InitCli /\ [][NextCli]_vars

(***************************************************************************)
(* The exit code of the command line program                               *)
(***************************************************************************)
\* the workflows the run validated that were not valid
FailedValidations ==
    { i \in 1..cli.validated : cli.workflows[i].outcome.thrown # "none" }

\* the run ended before any workflow was handed to validateProjectWorkflow:
\* usage, or a precondition on the path failed
PreconditionFailed == cli.workflows = <<>>

\* C22 as stated: the process exits with code 0 only when every workflow it
\* validated is valid, and exits with code 1 whenever a workflow fails
\* validation or a precondition on its input fails.
C22_ExitCodeTellsValidity ==
    cli.pc = "exited" =>
        /\ cli.exitCode = 0 => FailedValidations = {}
        /\ (FailedValidations # {} \/ PreconditionFailed) => cli.exitCode = 1

(***************************************************************************)
(* SpecFetch: fetchActionMetadata of a RepoObjectFetcher and the HTTP      *)
(* responses its fetchFile receives                                        *)
(***************************************************************************)
\* headers.get of a header the response does not have
NoHeader == << "null" >>

\* parseInt(s, 10) of a header value: the number its leading digits spell,
\* NaN when it has none (null is read as the string 'null')
parseInt(s) ==
    LET digits == << "0", "1", "2", "3", "4", "5", "6", "7", "8", "9" >>
        isDigit(c) == \E d \in 1..10 : digits[d] = c
        leading == Max({ n \in 0..Len(s) : \A i \in 1..n : isDigit(s[i]) })
        RECURSIVE valueOf(_)
        valueOf(n) ==
            IF n = 0 THEN 0
            ELSE 10 * valueOf(n - 1) + (CHOOSE d \in 1..10 : digits[d] = s[n]) - 1
    IN  [ nan |-> leading = 0, value |-> valueOf(leading) ]

\* an error thrown by a fetcher; new Date(resetsWhenSeconds * 1000) for
\* GitHubApiRateLimited
FetchError(class, status, resetsWhenSeconds) ==
    [ class |-> class, status |-> status,
      resetsWhen |-> [ invalid |-> resetsWhenSeconds.nan,
                       time |-> resetsWhenSeconds.value * 1000 ] ]

NotThrown == FetchError("none", 0, [ nan |-> TRUE, value |-> 0 ])

checkApiResponseErrorsAny403(response) ==
    IF response.status = 401
    THEN FetchError("GitHubApiUnauthorized", 0, [ nan |-> TRUE, value |-> 0 ])
    ELSE IF response.status = 403 \/ response.status = 429
    THEN FetchError("GitHubApiRateLimited", 0, parseInt(response.reset))
    ELSE IF response.status = 404
    THEN FetchError("GitHubApiNotFound", 0, [ nan |-> TRUE, value |-> 0 ])
    ELSE IF response.status > 299
    THEN FetchError("Error", response.status, [ nan |-> TRUE, value |-> 0 ])
    ELSE NotThrown

\* what checkApiResponseErrors throws for a response, NotThrown when it
\* returns
checkApiResponseErrors(response) ==
    IF response.status = 401
    THEN FetchError("GitHubApiUnauthorized", 0, [ nan |-> TRUE, value |-> 0 ])
    ELSE IF response.status = 403 /\ response.remaining = << "0" >>
    THEN FetchError("GitHubApiRateLimited", 0, parseInt(response.reset))
    ELSE IF response.status = 429
    THEN FetchError("GitHubApiRateLimited", 0, parseInt(response.reset))
    ELSE IF response.status = 404
    THEN FetchError("GitHubApiNotFound", 0, [ nan |-> TRUE, value |-> 0 ])
    ELSE IF response.status > 299
    THEN FetchError("Error", response.status, [ nan |-> TRUE, value |-> 0 ])
    ELSE NotThrown

\* what the GitHub API answers to a request, or the failure of fetch itself:
\* the status, the headers x-ratelimit-remaining and x-ratelimit-reset, and
\* whether the body has the text of the file
Responses ==
    { [ failed |-> FALSE, status |-> status, remaining |-> remaining, reset |-> reset,
        text |-> text ] :
        status \in { 200, 204, 299, 300, 302, 400, 401, 403, 404, 429, 500 },
        remaining \in { NoHeader, << "0" >>, << "1" >>, << "0", "0" >> },
        reset \in { NoHeader, << "1", "7" >> },
        text \in BOOLEAN }
      \cup { [ failed |-> TRUE, status |-> 0, remaining |-> NoHeader, reset |-> NoHeader,
               text |-> FALSE ] }

\* what fetchFile of the fetcher gives for a response: the error it throws,
\* NotThrown when it returns the source
fetchFile(fetcher, version, response) ==
    IF response.failed
    THEN FetchError(IF version = "repoObjectFetcher.ts" THEN "NetworkError" ELSE "TypeError",
                    0, [ nan |-> TRUE, value |-> 0 ])
    ELSE IF checkApiResponseErrors(response).class # "none"
    THEN checkApiResponseErrors(response)
    ELSE IF fetcher = "GraphQL" /\ ~response.text
    THEN FetchError("GitHubApiNotFound", 0, [ nan |-> TRUE, value |-> 0 ])
    ELSE NotThrown

\* the path of the metadata file fetchActionMetadata asks for first
actionYmlPath(subdir) ==
    IF subdir # NotSet
    THEN subdir \o (IF endsWith(subdir, <<"/">>) THEN <<>> ELSE <<"/">>) \o <<"a", "c", "t", "i", "o", "n", ".", "y", "m", "l">>
    ELSE <<"a", "c", "t", "i", "o", "n", ".", "y", "m", "l">>

\* p.replace(/\.yml$/, '.yaml')
replaceYml(p) ==
    IF endsWith(p, <<".", "y", "m", "l">>) THEN SubSeq(p, 1, Len(p) - 4) \o <<".", "y", "a", "m", "l">> ELSE p

\* the calls of fetchActionMetadata: of either version of the class (the one
\* that awaits fetchFile in its try block and the one that returns its
\* promise), of either fetcher, with and without a subdirectory
InitFetch ==
    /\ metadata \in { [ version |-> version, fetcher |-> fetcher, subdir |-> subdir,
                        pc |-> "called", fetches |-> <<>>, thrown |-> NotThrown ] :
                        version \in { "repoObjectFetcher.ts", "fileFetcher.ts" },
                        fetcher \in { "GraphQL", "Rest" },
                        subdir \in { NotSet, <<"d">>, <<"d", "/">>, <<"d", "/", "e">> } }
    /\ cache = <<>> /\ fetched = <<>> /\ requests = <<>>
    /\ workflows = <<>> /\ fetchCount = <<>> /\ run = <<>> /\ jobs = <<>> /\ raised = <<>>
    /\ reads = <<>> /\ call = <<>> /\ data = <<>> /\ document = <<>>
    /\ cli = <<>> /\ actionYaml = <<>>

\* fetchActionMetadata is called: it calls fetchFile for action.yml
fetchActionMetadata ==
    /\ metadata.pc = "called"
    /\ metadata' = [ metadata EXCEPT !.pc = "action.yml" ]
    /\ UNCHANGED <<readerVars, analyzerVars, reads, call, data, document, cli, actionYaml>>

\* fetchFile for action.yml settles: in the version that awaits it in the try
\* block GitHubApiNotFound is caught and fetchFile is called for action.yaml;
\* in the version that returns the promise from the try block nothing is
\* caught
fetchFileSettles ==
    \E response \in Responses :
        LET e == fetchFile(metadata.fetcher, metadata.version, response)
            fetch == [ path |-> actionYmlPath(metadata.subdir), response |-> response,
                       thrown |-> e ]
        IN  /\ metadata.pc = "action.yml"
            /\ metadata' =
                   IF metadata.version = "repoObjectFetcher.ts" /\ e.class = "GitHubApiNotFound"
                   THEN [ metadata EXCEPT !.pc = "action.yaml", !.fetches = Append(@, fetch) ]
                   ELSE [ metadata EXCEPT !.pc = "settled", !.fetches = Append(@, fetch),
                                          !.thrown = e ]
            /\ UNCHANGED <<readerVars, analyzerVars, reads, call, data, document, cli, actionYaml>>

\* fetchFile for action.yaml settles, and fetchActionMetadata with it
fetchFileRetrySettles ==
    \E response \in Responses :
        LET e == fetchFile(metadata.fetcher, metadata.version, response)
            fetch == [ path |-> replaceYml(actionYmlPath(metadata.subdir)),
                       response |-> response, thrown |-> e ]
        IN  /\ metadata.pc = "action.yaml"
            /\ metadata' = [ metadata EXCEPT !.pc = "settled", !.fetches = Append(@, fetch),
                                             !.thrown = e ]
            /\ UNCHANGED <<readerVars, analyzerVars, reads, call, data, document, cli, actionYaml>>

NextFetch == fetchActionMetadata \/ fetchFileSettles \/ fetchFileRetrySettles

SpecFetch == InitFetch /\ [][NextFetch]_vars

(***************************************************************************)
(* Fetching the metadata of an action                                      *)
(***************************************************************************)
\* C23 as stated: fetchActionMetadata first requests action.yml, under the
\* subdirectory when one is given; if and only if that request fails with
\* GitHubApiNotFound it makes exactly one further request, for action.yaml at
\* the same place, and gives what that request gives; any other failure of
\* the first request is what it throws, without a second request.
C23_RetriesActionYamlOnNotFound ==
    LET place == IF metadata.subdir = NotSet THEN <<>>
                 ELSE IF metadata.subdir[Len(metadata.subdir)] = "/" THEN metadata.subdir
                 ELSE metadata.subdir \o <<"/">>
    IN  /\ Len(metadata.fetches) >= 1 => metadata.fetches[1].path = place \o <<"a", "c", "t", "i", "o", "n", ".", "y", "m", "l">>
        /\ metadata.pc = "settled" =>
               IF metadata.fetches[1].thrown.class = "GitHubApiNotFound"
               THEN /\ Len(metadata.fetches) = 2
                    /\ metadata.fetches[2].path = place \o <<"a", "c", "t", "i", "o", "n", ".", "y", "a", "m", "l">>
                    /\ metadata.thrown = metadata.fetches[2].thrown
               ELSE /\ Len(metadata.fetches) = 1
                    /\ metadata.thrown = metadata.fetches[1].thrown

\* C24: checkApiResponseErrors, which both fetchers apply to every response,
\* throws by the status: GitHubApiUnauthorized for 401; GitHubApiRateLimited
\* with the time of x-ratelimit-reset for 403 with x-ratelimit-remaining '0',
\* and GitHubApiRateLimited for 429; GitHubApiNotFound for 404; an Error
\* naming the status for any other status above 299, a 403 without the
\* exhausted rate limit included; and nothing for a status of 299 or below.
C24_ResponseClassification ==
    \A i \in 1..Len(metadata.fetches) :
        LET response == metadata.fetches[i].response
            e == metadata.fetches[i].thrown
        IN  ~response.failed =>
                CASE response.status = 401 -> e.class = "GitHubApiUnauthorized"
                  [] response.status = 403 /\ response.remaining = <<"0">> ->
                         /\ e.class = "GitHubApiRateLimited"
                         /\ response.reset = <<"1", "7">> =>
                                ~e.resetsWhen.invalid /\ e.resetsWhen.time = 17000
                  [] response.status = 429 -> e.class = "GitHubApiRateLimited"
                  [] response.status = 404 -> e.class = "GitHubApiNotFound"
                  [] response.status > 299 /\ response.status \notin { 401, 404, 429 }
                       /\ ~(response.status = 403 /\ response.remaining = <<"0">>) ->
                         e.class = "Error" /\ e.status = response.status
                  [] response.status <= 299 ->
                         \/ e.class = "none"
                         \/ /\ metadata.fetcher = "GraphQL" /\ ~response.text
                            /\ e.class = "GitHubApiNotFound"

\* the request for action.yaml was answered 403 with no requests remaining
\* and was classified as rate limited until the time of x-ratelimit-reset
C24_Witness ==
    /\ metadata.pc = "settled"
    /\ Len(metadata.fetches) = 2
    /\ metadata.fetches[2].response.status = 403
    /\ metadata.fetches[2].response.remaining = <<"0">>
    /\ metadata.fetches[2].thrown.class = "GitHubApiRateLimited"
    /\ metadata.fetches[2].thrown.resetsWhen.time = 17000

(***************************************************************************)
(* Rate limits and missing credentials while loading from a repository     *)
(***************************************************************************)
ApiRefusalClasses == {"GitHubApiRateLimited", "GitHubApiUnauthorized"}

\* the error a RepoObjectFetcher throws for a refusal of the given class
ApiRefusal(class) ==
    CHOOSE e \in RepoObjectFetcherErrors : e.class = class

MaxActionInputs == 2

\* GHActionInput: a property parseInput did not set is NotSet (YUndefined for
\* default, which is null or a string once set)
GHActionInput(description, default, required, deprecationMessage) ==
    [ description |-> description, default |-> default, required |-> required,
      deprecationMessage |-> deprecationMessage ]

NoActionInput == GHActionInput(NotSet, YUndefined, NotSet, NotSet)

\* the template literal of a boolean or a number, and a string as it is
convertStringLike(c) == c.text

isBoolean(v) == v.type = "boolean"

\* parseInput, mutated: a field of the wrong type is left out of the input
\* and nothing is thrown for it
parseInputLenient(inputYaml, inputId) ==
    LET at == << "inputs." >> \o inputId
        description == Get(inputYaml, << "description" >>)
        default == Get(inputYaml, << "default" >>)
        required == Get(inputYaml, << "required" >>)
        deprecationMessage == Get(inputYaml, << "deprecationMessage" >>)
        throw(message, path) ==
            Throws("SchemaError", GHWorkflowSchemaError(message, "", path), NoActionInput, <<>>)
    IN  IF ~isMap(inputYaml)
        THEN throw(<< "Must be a map of input properties" >>, at)
        ELSE IF ~In(<< "description" >>, inputYaml)
        THEN throw(<< "Field is required" >>, at \o << ".description" >>)
        ELSE IF ~isStringLike(description)
        THEN throw(<< "Must be a string" >>, at \o << ".description" >>)
        ELSE Returns(GHActionInput(
                         convertStringLike(description),
                         IF In(<< "default" >>, inputYaml) /\ default.type = "null" THEN default
                         ELSE IF In(<< "default" >>, inputYaml) /\ isStringLike(default)
                         THEN Yaml("string", convertStringLike(default), <<>>, <<>>)
                         ELSE YUndefined,
                         IF In(<< "required" >>, inputYaml) /\ isBoolean(required)
                         THEN required.text ELSE NotSet,
                         IF In(<< "deprecationMessage" >>, inputYaml) /\ isStringLike(deprecationMessage)
                         THEN convertStringLike(deprecationMessage) ELSE NotSet),
                     <<>>)

\* parseInput returns the input or throws a SchemaError
parseInput(inputYaml, inputId) ==
    LET at == << "inputs." >> \o inputId
        description == Get(inputYaml, << "description" >>)
        default == Get(inputYaml, << "default" >>)
        required == Get(inputYaml, << "required" >>)
        deprecationMessage == Get(inputYaml, << "deprecationMessage" >>)
        throw(message, path) ==
            Throws("SchemaError", GHWorkflowSchemaError(message, "", path), NoActionInput, <<>>)
    IN  IF ~isMap(inputYaml)
        THEN throw(<< "Must be a map of input properties" >>, at)
        ELSE IF ~In(<< "description" >>, inputYaml)
        THEN throw(<< "Field is required" >>, at \o << ".description" >>)
        ELSE IF ~isStringLike(description)
        THEN throw(<< "Must be a string" >>, at \o << ".description" >>)
        ELSE IF In(<< "default" >>, inputYaml) /\ default.type # "null" /\ ~isStringLike(default)
        THEN throw(<< "Must be a string or null" >>, at \o << ".default" >>)
        ELSE IF In(<< "required" >>, inputYaml) /\ ~isBoolean(required)
        THEN throw(<< "Must be a boolean" >>, at \o << ".required" >>)
        ELSE IF In(<< "deprecationMessage" >>, inputYaml) /\ ~isStringLike(deprecationMessage)
        THEN throw(<< "Must be a string" >>, at \o << ".deprecationMessage" >>)
        ELSE Returns(GHActionInput(
                         convertStringLike(description),
                         IF ~In(<< "default" >>, inputYaml) THEN YUndefined
                         ELSE IF default.type = "null" THEN default
                         ELSE Yaml("string", convertStringLike(default), <<>>, <<>>),
                         IF In(<< "required" >>, inputYaml) THEN required.text ELSE NotSet,
                         IF In(<< "deprecationMessage" >>, inputYaml)
                         THEN convertStringLike(deprecationMessage) ELSE NotSet),
                     <<>>)

\* collectInputs: the inputs kept, as the ids and the values of the record
\* in the order of insertion, and the schema errors pushed
collectInputs(inputsYaml) ==
    LET parsed == [ k \in 1..Len(inputsYaml.keys) |->
                      parseInput(inputsYaml.items[k], inputsYaml.keys[k]) ]
        kept == SelectSeq([ k \in 1..Len(inputsYaml.keys) |-> k ],
                          LAMBDA k : parsed[k].thrown = "none")
        threw == SelectSeq([ k \in 1..Len(inputsYaml.keys) |-> k ],
                           LAMBDA k : parsed[k].thrown # "none")
    IN  IF ~isMap(inputsYaml)
        THEN Returns([ keys |-> <<>>, items |-> <<>> ],
                     << GHWorkflowSchemaError(<< "Must be a map of inputs" >>, "", << "inputs" >>) >>)
        ELSE Returns([ keys |-> [ i \in 1..Len(kept) |-> inputsYaml.keys[kept[i]] ],
                       items |-> [ i \in 1..Len(kept) |-> parsed[kept[i]].value ] ],
                     [ i \in 1..Len(threw) |-> parsed[threw[i]].error ])

\* GHActionReadResult; hasInputs tells whether action.inputs was set
GHActionReadResult(thrown, error, hasInputs, inputs, schemaErrors) ==
    [ thrown |-> thrown, error |-> error,
      action |-> [ hasInputs |-> hasInputs, inputs |-> inputs ],
      schemaErrors |-> schemaErrors ]

\* readActionModel of a text that parses to the given value
readActionModel(parsed) ==
    LET read(yaml, inputs) ==
            IF yaml.thrown # "none"
            THEN GHActionReadResult(yaml.thrown, yaml.error, FALSE,
                                    [ keys |-> <<>>, items |-> <<>> ], <<>>)
            ELSE IF In(<< "inputs" >>, parsed)
            THEN GHActionReadResult("none", yaml.error, TRUE, inputs.value, inputs.pushed)
            ELSE GHActionReadResult("none", yaml.error, FALSE,
                                    [ keys |-> <<>>, items |-> <<>> ], <<>>)
    IN  read(readYaml(parsed), collectInputs(Get(parsed, << "inputs" >>)))

\* the ids of the inputs of an action document, in the order of the document
ActionInputIds == << << "token" >>, << "fetch-depth" >>, << "ref" >> >>

\* the parsed action documents read: roots that are not a map, a map without
\* inputs, inputs that are not a map, and maps of up to maxInputs inputs, one
\* of which has any of the bodies below and the others one of a few
ActionDocuments(maxInputs) ==
    LET str(s) == Yaml("string", s, <<>>, <<>>)
        number == Yaml("number", <<"1">>, <<>>, <<>>)
        true == Yaml("boolean", <<"t", "r", "u", "e">>, <<>>, <<>>)
        false == Yaml("boolean", <<"f", "a", "l", "s", "e">>, <<>>, <<>>)
        null == Yaml("null", <<>>, <<>>, <<>>)
        array(items) == Yaml("array", <<>>, <<>>, items)
        map(keys, items) == Yaml("map", <<>>, keys, items)
        \* a body of the properties that are given (YUndefined: left out)
        body(names, values) ==
            LET given == SelectSeq([ i \in 1..Len(names) |-> i ],
                                   LAMBDA i : values[i] # YUndefined)
            IN  map([ i \in 1..Len(given) |-> names[given[i]] ],
                    [ i \in 1..Len(given) |-> values[given[i]] ])
        properties ==
            << << "description" >>, << "default" >>, << "required" >>, << "deprecationMessage" >> >>
        reversed ==
            << << "deprecationMessage" >>, << "required" >>, << "default" >>, << "description" >> >>
        anyBody ==
            { body(properties, << description, default, required, deprecationMessage >>) :
                description \in { YUndefined, str(<<"d">>), number, true, null, map(<<>>, <<>>) },
                default \in { YUndefined, null, str(<<"x">>), number, array(<<>>) },
                required \in { YUndefined, true, false, str(<<"t", "r", "u", "e">>), null },
                deprecationMessage \in { YUndefined, str(<<"m">>), number, null } }
              \cup { body(reversed, << number, str(<<"t", "r", "u", "e">>), array(<<>>), str(<<"d">>) >>),
                     body(reversed, << null, true, array(<<>>), str(<<"d">>) >>),
                     str(<<"d">>), null, array(<<>>) }
        fewBodies ==
            { body(properties, << str(<<"d">>), null, true, YUndefined >>),
              body(properties, << YUndefined, str(<<"x">>), true, YUndefined >>),
              str(<<"d">>) }
        inputsMaps ==
            { map(<<>>, <<>>) }
              \cup UNION { UNION { { map(SubSeq(ActionInputIds, 1, n),
                                         [ i \in 1..n |-> IF i = p THEN one ELSE others[i] ]) :
                                       one \in anyBody, others \in [ (1..n) \ { p } -> fewBodies ] } :
                                   p \in 1..n } :
                           n \in 1..maxInputs }
    IN  { str(<<"a">>), number, null, array(<<>>),
          map(<< << "name" >> >>, << str(<<"a">>) >>) }
          \cup { map(<< << "inputs" >> >>, << v >>) :
                   v \in { str(<<"b", "u", "n", "k">>), number, null, array(<<>>) } \cup inputsMaps }

\* the steps that use the action: without a with map, and with values for two of
\* the inputs
StepsUsingAction ==
    { UsesStep("repository", Checkout, FALSE, NoWith, Undefined, Undefined),
      UsesStep("repository", Checkout, TRUE,
               [ id \in { "token", "ref" } |-> Value("string", <<"a">>) ], "checkout", Undefined) }

\* action.inputs as #analyzeJob reads it, mutated: a default of null counts
\* as no default
InputsOfNullAsUndefined(action) ==
    [ i \in 1..Len(action.inputs.keys) |->
        ActionInput(action.inputs.keys[i][1],
                    action.inputs.items[i].required = <<"t", "r", "u", "e">>,
                    IF action.inputs.items[i].default.type \in { "undefined", "null" } THEN Undefined
                    ELSE "string") ]

\* action.inputs as #analyzeJob reads it: the id, the truth of required and
\* whether the default is undefined, null or a string
InputsOf(action) ==
    [ i \in 1..Len(action.inputs.keys) |->
        ActionInput(action.inputs.keys[i][1],
                    action.inputs.items[i].required = <<"t", "r", "u", "e">>,
                    IF action.inputs.items[i].default.type = "undefined" THEN Undefined
                    ELSE IF action.inputs.items[i].default.type = "null" THEN Null
                    ELSE "string") ]

\* the text of an action has been fetched and parses to one of the
\* documents; the step that uses the action is not yet looked at
InitAction ==
    /\ actionYaml \in { [ parsed |-> d, step |-> RunStep, pc |-> "reading",
                          result |-> GHActionReadResult("none", GHWorkflowSchemaError(<<>>, "", <<>>),
                                                        FALSE, [ keys |-> <<>>, items |-> <<>> ], <<>>),
                          code |-> Null, message |-> NoMessage ] :
                        d \in ActionDocuments(MaxActionInputs) }
    /\ cache = <<>> /\ fetched = <<>> /\ requests = <<>>
    /\ workflows = <<>> /\ fetchCount = <<>> /\ run = <<>> /\ jobs = <<>> /\ raised = <<>>
    /\ reads = <<>> /\ call = <<>> /\ data = <<>> /\ document = <<>>
    /\ cli = <<>> /\ metadata = <<>>

\* readActionModel(s) returns {action, schemaErrors}
readActionModelReturns ==
    LET returns(result) ==
            /\ result.thrown = "none"
            /\ actionYaml' = [ actionYaml EXCEPT !.pc = "returned", !.result = result ]
    IN  /\ actionYaml.pc = "reading"
        /\ returns(readActionModel(actionYaml.parsed))
        /\ UNCHANGED <<readerVars, analyzerVars, reads, call, data, document, cli, metadata>>

\* readActionModel(s) throws
readActionModelThrows ==
    LET throws(result) ==
            /\ result.thrown # "none"
            /\ actionYaml' = [ actionYaml EXCEPT !.pc = "raised", !.result = result ]
    IN  /\ actionYaml.pc = "reading"
        /\ throws(readActionModel(actionYaml.parsed))
        /\ UNCHANGED <<readerVars, analyzerVars, reads, call, data, document, cli, metadata>>

\* #readAction after readActionModel has returned, and the loop of
\* #analyzeJob over the inputs of the action it hands back, for a step of
\* job build
analyzeJob ==
    LET checked(step, message) ==
            actionYaml' = [ actionYaml EXCEPT
                              !.step = step,
                              !.pc = IF message = NoMessage THEN "passed" ELSE "failed",
                              !.code = IF message = NoMessage THEN Null ELSE "WORKFLOW_RUNTIME",
                              !.message = message ]
    IN  /\ actionYaml.pc = "returned"
        /\ \E step \in StepsUsingAction :
               IF HasSchemaErrors(actionYaml.result.schemaErrors)
               THEN actionYaml' = [ actionYaml EXCEPT !.step = step, !.pc = "failed",
                                                      !.code = "ACTION_SCHEMA" ]
               ELSE checked(step, checkActionInputs("build", step, 1,
                                                    InputsOf(actionYaml.result.action), 1))
        /\ UNCHANGED <<readerVars, analyzerVars, reads, call, data, document, cli, metadata>>

NextAction == readActionModelReturns \/ readActionModelThrows \/ analyzeJob

SpecAction == InitAction /\ [][NextAction]_vars

(***************************************************************************)
(* The inputs of an action                                                 *)
(***************************************************************************)
ActionRead == actionYaml.pc \in { "returned", "passed", "failed" }

StringLikeTypes == { "string", "number", "boolean" }

\* the properties of an input in the order they are required of it, each
\* with what its path ends with and the types it may have
InputProperties ==
    << [ name |-> << "description" >>, at |-> << ".description" >>, types |-> StringLikeTypes ],
       [ name |-> << "default" >>, at |-> << ".default" >>, types |-> StringLikeTypes \cup { "null" } ],
       [ name |-> << "required" >>, at |-> << ".required" >>, types |-> { "boolean" } ],
       [ name |-> << "deprecationMessage" >>, at |-> << ".deprecationMessage" >>,
         types |-> StringLikeTypes ] >>

\* the properties of a body that is a map which are not as required: a
\* description that is missing, and any property given with another type
ViolatedProperties(inputYaml) ==
    { n \in 1..Len(InputProperties) :
        \/ n = 1 /\ ~In(InputProperties[n].name, inputYaml)
        \/ /\ In(InputProperties[n].name, inputYaml)
           /\ Get(inputYaml, InputProperties[n].name).type \notin InputProperties[n].types }

ValidInputBody(inputYaml) == inputYaml.type = "map" /\ ViolatedProperties(inputYaml) = {}

\* where the one schema error of an input that is left out points to
FirstViolationPath(inputYaml, inputId) ==
    IF inputYaml.type # "map" THEN << "inputs." >> \o inputId
    ELSE << "inputs." >> \o inputId
             \o InputProperties[Min(ViolatedProperties(inputYaml))].at

\* the schema errors read that point to the input or to a property of it
ErrorsOfInput(inputId) ==
    { i \in 1..Len(actionYaml.result.schemaErrors) :
        /\ Len(actionYaml.result.schemaErrors[i].path) >= 2
        /\ SubSeq(actionYaml.result.schemaErrors[i].path, 1, 2) = << "inputs." >> \o inputId }

\* C26: reading an action whose document has inputs. When inputs is not a
\* map the result has exactly one schema error, 'Must be a map of inputs' at
\* inputs, and an empty inputs mapping. When it is a map, an input is in the
\* model if and only if its body is a map with a string-like description, a
\* default that is string-like or null when given, a boolean required when
\* given and a string-like deprecationMessage when given; the inputs kept
\* keep the order of the document and have the properties of their bodies,
\* whatever the other inputs are; an input left out has exactly one schema
\* error, at the input when its body is not a map and else at its first
\* property that is not as required, and there are no other schema errors.
C26_InputKeptIffValid ==
    (ActionRead /\ In(<< "inputs" >>, actionYaml.parsed)) =>
        LET inputsYaml == Get(actionYaml.parsed, << "inputs" >>)
            inputs == actionYaml.result.action.inputs
            schemaErrors == actionYaml.result.schemaErrors
            valid == SelectSeq([ k \in 1..Len(inputsYaml.keys) |-> k ],
                               LAMBDA k : ValidInputBody(inputsYaml.items[k]))
        IN  /\ actionYaml.result.action.hasInputs
            /\ IF inputsYaml.type # "map"
               THEN /\ inputs.keys = <<>>
                    /\ Len(schemaErrors) = 1
                    /\ schemaErrors[1].message = << "Must be a map of inputs" >>
                    /\ schemaErrors[1].path = << "inputs" >>
               ELSE /\ inputs.keys = [ i \in 1..Len(valid) |-> inputsYaml.keys[valid[i]] ]
                    /\ \A i \in 1..Len(valid) :
                         LET inputYaml == inputsYaml.items[valid[i]] IN
                         /\ inputs.items[i].description = Get(inputYaml, << "description" >>).text
                         /\ inputs.items[i].default.type =
                                (IF ~In(<< "default" >>, inputYaml) THEN "undefined"
                                 ELSE IF Get(inputYaml, << "default" >>).type = "null" THEN "null"
                                 ELSE "string")
                         /\ inputs.items[i].default.text = Get(inputYaml, << "default" >>).text
                         /\ inputs.items[i].required =
                                (IF In(<< "required" >>, inputYaml)
                                 THEN Get(inputYaml, << "required" >>).text ELSE NotSet)
                         /\ inputs.items[i].deprecationMessage =
                                (IF In(<< "deprecationMessage" >>, inputYaml)
                                 THEN Get(inputYaml, << "deprecationMessage" >>).text ELSE NotSet)
                    /\ Len(schemaErrors) = Len(inputsYaml.keys) - Len(valid)
                    /\ \A k \in 1..Len(inputsYaml.keys) :
                         IF ValidInputBody(inputsYaml.items[k])
                         THEN ErrorsOfInput(inputsYaml.keys[k]) = {}
                         ELSE /\ Cardinality(ErrorsOfInput(inputsYaml.keys[k])) = 1
                              /\ \A i \in ErrorsOfInput(inputsYaml.keys[k]) :
                                   schemaErrors[i].path =
                                       FirstViolationPath(inputsYaml.items[k], inputsYaml.keys[k])

\* of two inputs the first has a required that is a string and a
\* deprecationMessage that is a number: it is left out with one error, at
\* its required, and the second input is kept
C26_Witness ==
    /\ actionYaml.pc = "returned"
    /\ Get(Get(Get(actionYaml.parsed, << "inputs" >>), << "token" >>),
           << "deprecationMessage" >>).type = "number"
    /\ actionYaml.result.action.inputs.keys = << << "fetch-depth" >> >>
    /\ actionYaml.result.action.inputs.items[1].default.type = "null"
    /\ actionYaml.result.schemaErrors =
           << GHWorkflowSchemaError(<< "Must be a boolean" >>, "",
                                    << "inputs.", "token", ".required" >>) >>

\* the inputs of the action document that are declared with required: true
\* and default: null, with a string-like description and nothing else
RequiredWithNullDefault ==
    LET inputsYaml == Get(actionYaml.parsed, << "inputs" >>) IN
    IF ~isMap(inputsYaml) THEN {}
    ELSE { k \in 1..Len(inputsYaml.keys) :
             /\ isMap(inputsYaml.items[k])
             /\ inputsYaml.items[k].keys = << << "description" >>, << "default" >>, << "required" >> >>
             /\ Get(inputsYaml.items[k], << "description" >>).type \in StringLikeTypes
             /\ Get(inputsYaml.items[k], << "default" >>).type = "null"
             /\ Get(inputsYaml.items[k], << "required" >>) = Yaml("boolean", <<"t", "r", "u", "e">>, <<>>, <<>>) }

\* C30: an input of an action declared with required: true and default: null
\* is read without a schema error and is in the model with a default of
\* null, and once the step that uses the action has been checked no runtime
\* error says that this input is required, whether the step supplies it or
\* not.
C30_NullDefaultIsADefault ==
    (ActionRead /\ In(<< "inputs" >>, actionYaml.parsed)) =>
        \A k \in RequiredWithNullDefault :
            LET inputId == Get(actionYaml.parsed, << "inputs" >>).keys[k] IN
            /\ ErrorsOfInput(inputId) = {}
            /\ \E i \in 1..Len(actionYaml.result.action.inputs.keys) :
                   /\ actionYaml.result.action.inputs.keys[i] = inputId
                   /\ actionYaml.result.action.inputs.items[i].required = <<"t", "r", "u", "e">>
                   /\ actionYaml.result.action.inputs.items[i].default.type = "null"
            /\ actionYaml.message #
                   MsgActionInputRequired(inputId[1], actionYaml.step.uses.specifier,
                                          StepLabel(actionYaml.step, 1), "build")

\* the only input of the action is token, required with a default of null,
\* and the check of a step that has no with map has passed
C30_Witness ==
    /\ actionYaml.pc = "passed"
    /\ ~actionYaml.step.hasWith
    /\ Get(actionYaml.parsed, << "inputs" >>).keys = << << "token" >> >>
    /\ RequiredWithNullDefault = { 1 }
    /\ actionYaml.result.schemaErrors = <<>>
    /\ actionYaml.message = NoMessage

(***************************************************************************)
(* The steps of a job                                                      *)
(***************************************************************************)
\* whether step i of job j uses an action of a repository
IsRepositoryStep(j, i) ==
    /\ run.workflow.jobs[j].steps[i].KIND = "uses"
    /\ run.workflow.jobs[j].steps[i].uses.KIND = "repository"

\* the steps the tasks have got to so far that use the action or workflow t
StepsReached(t) ==
    UNION { { << j, i >> :
                i \in { k \in 1..Len(run.workflow.jobs[j].steps) :
                          /\ k <= jobs[j].step
                          /\ run.workflow.jobs[j].steps[k].KIND = "uses"
                          /\ run.workflow.jobs[j].steps[k].uses.specifier = t } } :
            j \in 1..Len(jobs) }

\* C27: of the steps of a job only those that use an action of a repository
\* are fetched for: the fetches made for a specifier are as many as the
\* steps of repository kind with that specifier the tasks have got to, none
\* is made for the specifier of a Docker or a filesystem action, the step a
\* task waits at or has failed at is always of repository kind, and a job of
\* steps without any such step is done without an error.
C27_OnlyRepositoryStepsFetch ==
    /\ \A t \in ActionSpecifiers :
           fetchCount[t] = Cardinality({ ji \in StepsReached(t) : IsRepositoryStep(ji[1], ji[2]) })
    /\ fetchCount[DockerAction] = 0
    /\ fetchCount[FilesystemAction] = 0
    /\ \A j \in 1..Len(jobs) :
           run.workflow.jobs[j].KIND = "steps" =>
               /\ jobs[j].step # 0 => IsRepositoryStep(j, jobs[j].step)
               /\ jobs[j].pc \in { "awaitAction", "failed" } => jobs[j].step # 0
               /\ (\A i \in 1..Len(run.workflow.jobs[j].steps) : ~IsRepositoryStep(j, i)) =>
                      /\ jobs[j].pc = "done"
                      /\ jobs[j].error = NoError

\* a job whose steps are a filesystem action and a run step is done, and a
\* job with a Docker action before a repository action has fetched for the
\* repository action only and failed there
C27_Witness ==
    /\ Len(jobs) = 2
    /\ run.workflow.jobs[1].KIND = "steps"
    /\ run.workflow.jobs[2].KIND = "steps"
    /\ run.workflow.jobs[1].steps[1].uses.KIND = "filesystem"
    /\ jobs[1].pc = "done"
    /\ run.workflow.jobs[2].steps[1].uses.KIND = "docker"
    /\ jobs[2].pc = "failed"
    /\ jobs[2].step = 2
    /\ fetchCount[SetupNode] = 1
    /\ fetchCount[DockerAction] = 0
    /\ fetchCount[FilesystemAction] = 0

\* the step the task of job j stood at before a step of the analyzer: none
\* for a task that did not exist yet
StepBefore(j) == IF j <= Len(jobs) THEN jobs[j].step ELSE 0

\* C28: the steps of a job are analyzed one after the other in the order of
\* the source. A task that has failed with a runtime error at a step reports
\* that step: its specifier and its label, which is its id, else its name,
\* else step[<index>] with the index of the step in the source counted from
\* 0. A task only ever moves on to the next step of repository kind after
\* the one it stood at, and only when the action loaded for the step it
\* stood at read without schema errors and passed the check of its inputs,
\* so the step reported is the lowest one that fails. A task that has failed
\* changes no more: it loads and checks nothing further.
C28_StepsInSourceOrder ==
    /\ [](\A j \in 1..Len(jobs) :
            (/\ run.workflow.jobs[j].KIND = "steps"
             /\ jobs[j].pc = "failed"
             /\ jobs[j].error.code = "WORKFLOW_RUNTIME") =>
                /\ jobs[j].step \in 1..Len(run.workflow.jobs[j].steps)
                /\ jobs[j].loaded
                /\ jobs[j].error.message[4] =
                       run.workflow.jobs[j].steps[jobs[j].step].uses.specifier
                /\ jobs[j].error.message[6] = LabelOf(j)
                /\ jobs[j].error.message[8] = JobIds[j])
    /\ [][ \A j \in 1..Len(jobs') :
             /\ jobs'[j].step # StepBefore(j) =>
                    /\ jobs'[j].step =
                           NextRepositoryStep(run'.workflow.jobs[j], StepBefore(j) + 1)
                    /\ jobs'[j].pc = "awaitAction"
                    /\ StepBefore(j) # 0 =>
                           /\ jobs[j].pc = "awaitAction"
                           /\ jobs'[j].schemaErrors = <<>>
                           /\ checkActionInputs(JobIds[j],
                                                run.workflow.jobs[j].steps[StepBefore(j)],
                                                StepBefore(j), jobs'[j].action.inputs, 1)
                                  = NoMessage
             /\ (j <= Len(jobs) /\ jobs[j].pc = "failed") => jobs'[j] = jobs[j] ]_vars

\* the first job has failed at its second step, which has a name, after its
\* first step passed, and the second job has failed at its second step,
\* which has neither id nor name and comes after a Docker step: the label is
\* step[1]
C28_Witness ==
    /\ Len(jobs) = 2
    /\ run.workflow.jobs[1].KIND = "steps"
    /\ run.workflow.jobs[2].KIND = "steps"
    /\ jobs[1].pc = "failed"
    /\ jobs[1].step = 2
    /\ run.workflow.jobs[1].steps[1].uses.KIND = "repository"
    /\ run.workflow.jobs[1].steps[1].hasWith
    /\ jobs[1].error.code = "WORKFLOW_RUNTIME"
    /\ jobs[2].pc = "failed"
    /\ jobs[2].step = 2
    /\ run.workflow.jobs[2].steps[1].uses.KIND = "docker"
    /\ jobs[2].error.code = "WORKFLOW_RUNTIME"
    /\ jobs[2].error.message =
           MsgActionInputRequired("token", SetupNode, "step[1]", "test")

(***************************************************************************)
(* A target that two workflows reference through one FileReader            *)
(***************************************************************************)
\* the workflow an error of the reader says referenced the target: the
\* referencedBy of a workflow's error, the workflow of an action's error
ReferencingWorkflowOf(kind, error) ==
    IF kind = "actions.repository" THEN error.workflow ELSE error.referencedBy

\* C29: when the load of a target failed with a GHWorkflowError, the call
\* that found no promise for the key and every call made for the key later
\* have received the very same error, and the workflow the error names as
\* referencing the target is the one of the call that found no promise (null
\* if that call named none), whatever workflow the later calls named.
C29_FailureIsTheFirstRequesters ==
    \A r, q \in 1..MaxRequests :
        (/\ requests[r].pc = "done" /\ requests[q].pc = "done"
         /\ requests[r].kind = requests[q].kind /\ requests[r].key = requests[q].key
         /\ requests[r].found = "absent"
         /\ requests[r].state = "rejected"
         /\ requests[r].error.class = "GHWorkflowError") =>
            /\ requests[q].state = "rejected"
            /\ requests[q].error = requests[r].error
            /\ ReferencingWorkflowOf(requests[q].kind, requests[q].error) =
                   (IF requests[r].referencedBy = Undefined THEN Null
                    ELSE requests[r].referencedBy)

\* a.yml asked for a workflow of the project first and b.yml second, the
\* workflow has schema errors, and b.yml has received the error that names
\* a.yml
C29_Witness ==
    \E r, q \in 1..MaxRequests :
        /\ requests[r].pc = "done" /\ requests[q].pc = "done"
        /\ requests[r].kind = "workflows.filesystem" /\ requests[q].kind = "workflows.filesystem"
        /\ requests[r].key = requests[q].key
        /\ requests[r].found = "absent" /\ requests[q].found # "absent"
        /\ requests[r].referencedBy = ".github/workflows/a.yml"
        /\ requests[q].referencedBy = ".github/workflows/b.yml"
        /\ requests[q].error.code = "WORKFLOW_SCHEMA"
        /\ requests[q].error.referencedBy = ".github/workflows/a.yml"

====
